---- MODULE Spec2Model ----
(***************************************************************************)
(* A model of redis-util-functions.js: the key namespacer (_rpfx), the     *)
(* command dispatcher (rr, r, _redis_call, _rraw, _rexec), the batch       *)
(* executor (rpipemaybe, rpipemulti), the scan iterator (rscan), the       *)
(* document accessor (rjget) and the bulk purger (rdel, rdel_from_set).    *)
(*                                                                         *)
(* JavaScript strings are sequences of one-character strings, so that      *)
(* substring, indexOf and concatenation are computed as the code computes  *)
(* them.  Other JavaScript values are tagged records (see "values").       *)
(***************************************************************************)
EXTENDS Integers, Sequences, FiniteSets, TLC

VARIABLES
    redisHprefix,   \* this.redisHprefix, set by the constructor
    nsIn,           \* namespacer: the logical key handed to _rpfx
    nsOut,          \* namespacer: _rpfx(nsIn)
    nsOut2,         \* namespacer: _rpfx(_rpfx(nsIn))
    nsApplied,      \* namespacer: how many times _rpfx has been applied (0..2)
    call,           \* dispatcher: the public call being served, [op, input, arg2]
    live,           \* dispatcher: invocations made on this.redisClient during the call
    pipes,          \* dispatcher: the batch contexts, [type, queue, execs, atExec]
    ret,            \* dispatcher: what the call's promise settles to
    threw,          \* dispatcher: the call threw (a TypeError of the layer itself)
    cmdsAfter,      \* dispatcher: the caller's commands array after the call
    lastRr,         \* dispatcher: the most recent rr call, [done, input, live, ret, threw]
    store,          \* the store: the set of keys it holds
    bucket,         \* the store: the SCAN bucket of each key (its iteration layout)
    frames,         \* scan iterator: one activation record of rscan per running call
    docs,           \* the store: the JSON document under each key, or Missing
    jget,           \* document accessor: the activation record of rjget
    coll,           \* the store: one collection, [kind, key, items] with items <<member, score>>
    purge,          \* bulk purger: the activation record of rdel / rdel_from_set
    resume          \* a caller that scans one round per rscan call, resuming by cursor

nsVars == <<nsIn, nsOut, nsOut2, nsApplied>>
dispVars == <<call, live, pipes, ret, threw, cmdsAfter, lastRr>>
storeVars == <<store, bucket>>
docVars == <<docs, jget>>
purgeVars == <<coll, purge>>
vars == <<redisHprefix, nsVars, dispVars, storeVars, frames, docVars, purgeVars, resume>>

----------------------------------------------------------------------------
(* Bounds and alphabets *)

MaxKeyLen == 4
MaxPfxLen == 2

\* Characters of keys and prefixes: the tag delimiters and two letters.
KeyChars == {"{", "}", "p", "a"}

RECURSIVE StringsUpTo(_, _)
StringsUpTo(chars, n) ==
    IF n = 0 THEN {<<>>}
    ELSE LET shorter == StringsUpTo(chars, n - 1)
         IN  shorter \cup {Append(s, c) : s \in {t \in shorter : Len(t) = n - 1}, c \in chars}

Keys == StringsUpTo(KeyChars, MaxKeyLen)
Prefixes == StringsUpTo(KeyChars, MaxPfxLen)

----------------------------------------------------------------------------
(* JavaScript string primitives *)

\* s.substring(0, 1) === c
FirstCharIs(s, c) == Len(s) > 0 /\ s[1] = c

\* s.indexOf(t) === 0   (true for the empty t)
IndexOfIsZero(s, t) == Len(t) <= Len(s) /\ SubSeq(s, 1, Len(t)) = t

\* s.indexOf(c) !== -1 for a one-character c
Contains(s, c) == \E i \in 1..Len(s) : s[i] = c

----------------------------------------------------------------------------
(* Key Namespacer *)

\* _rpfx without the "already prefixed" test: the prefix is always prepended.
RpfxAlways(pfx, hkey) ==
    LET slot == IF FirstCharIs(hkey, "{") THEN <<"{">> ELSE <<>>
        rest == IF FirstCharIs(hkey, "{") THEN Tail(hkey) ELSE hkey
    IN  slot \o pfx \o rest

\* _rpfx(hkey) with this.redisHprefix = pfx
Rpfx(pfx, hkey) ==
    LET _slot_pfx == IF FirstCharIs(hkey, "{") THEN <<"{">> ELSE <<>>
        rest == IF FirstCharIs(hkey, "{") THEN Tail(hkey) ELSE hkey
    IN  _slot_pfx \o (IF ~IndexOfIsZero(rest, pfx) THEN pfx ELSE <<>>) \o rest

_rpfx(hkey) == Rpfx(redisHprefix, hkey)

\* No key has been namespaced yet.
NsIdle ==
    /\ nsIn = <<>>
    /\ nsOut = <<>>
    /\ nsOut2 = <<>>
    /\ nsApplied = 0

----------------------------------------------------------------------------
(* JavaScript values: a tagged record per runtime type *)

Str(s) == [t |-> "str", v |-> s]        \* a string
Num(n) == [t |-> "num", v |-> n]        \* a number
Fn(f) == [t |-> "fn", v |-> f]          \* a function (typeof x === 'function')
Pipe(i) == [t |-> "pipe", v |-> i]      \* a Pipeline/Multi object: it has .exec
Null == [t |-> "null", v |-> 0]
Undefined == [t |-> "undefined", v |-> 0]
Client == [t |-> "client", v |-> 0]     \* this.redisClient

\* s.indexOf(t): the 0-based position of the first occurrence, -1 when none
IndexOf(s, t) ==
    LET hits == {i \in 0..(Len(s) - Len(t)) : SubSeq(s, i + 1, i + Len(t)) = t}
    IN  IF hits = {} THEN -1 ELSE CHOOSE i \in hits : \A j \in hits : i <= j

Front(s) == SubSeq(s, 1, Len(s) - 1)
Last(s) == s[Len(s)]

\* Method names
M_get == <<"g", "e", "t">>
M_del == <<"d", "e", "l">>
M_ping == <<"p", "i", "n", "g">>
M_rename == <<"r", "e", "n", "a", "m", "e">>
M_zunionstore == <<"z", "u", "n", "i", "o", "n", "s", "t", "o", "r", "e">>
M_JSON_GET == <<"J", "S", "O", "N", ".", "G", "E", "T">>
M_JSON_SET == <<"J", "S", "O", "N", ".", "S", "E", "T">>
M_JSON_ARRINSERT == <<"J", "S", "O", "N", ".", "A", "R", "R", "I", "N", "S", "E", "R", "T">>
M_JSON_ARRAPPEND == <<"J", "S", "O", "N", ".", "A", "R", "R", "A", "P", "P", "E", "N", "D">>
M_FT_LIST == <<"F", "T", ".", "_", "L", "I", "S", "T">>

----------------------------------------------------------------------------
(* JSON.stringify on the values the model passes as document values *)

DigitChar(d) == <<"0", "1", "2", "3", "4", "5", "6", "7", "8", "9">>[d + 1]

RECURSIVE Digits(_)
Digits(n) == IF n < 10 THEN <<DigitChar(n)>> ELSE Digits(n \div 10) \o <<DigitChar(n % 10)>>

Arr(q) == [t |-> "arr", v |-> q]        \* an array

\* JSON.stringify(x): a string is quoted, a number printed, null is "null",
\* an array is its elements' texts between brackets; an object (a batch
\* context) is printed as an object text.
RECURSIVE JSONstringify(_)
RECURSIVE JoinTexts(_)
JoinTexts(q) ==
    IF q = <<>> THEN <<>>
    ELSE IF Len(q) = 1 THEN JSONstringify(q[1]).v
    ELSE JSONstringify(q[1]).v \o <<",">> \o JoinTexts(Tail(q))

JSONstringify(x) ==
    CASE x.t = "str" -> Str(<<"\"">> \o x.v \o <<"\"">>)
      [] x.t = "num" -> Str(Digits(x.v))
      [] x.t = "null" -> Str(<<"n", "u", "l", "l">>)
      [] x.t = "arr" -> Str(<<"[">> \o JoinTexts(x.v) \o <<"]">>)
      [] OTHER -> Str(<<"{", "}">>)

----------------------------------------------------------------------------
(* Command Dispatcher and Raw Command Router.  Each returns the invocation  *)
(* it makes: [execer, m, args] is execer[m](...args) or execer.call(m, ...). *)

\* _rexec(rest_args): the trailing argument with .exec is popped and is the
\* target, else the live connection.
_rexec(rest_args) ==
    IF Len(rest_args) > 0 /\ Last(rest_args).t = "pipe"
    THEN [execer |-> Last(rest_args), rest_args |-> Front(rest_args)]
    ELSE [execer |-> Client, rest_args |-> rest_args]

\* _rraw(redis_method, ...rest_args)
_rraw(redis_method, rest_args) ==
    LET ex == _rexec(rest_args)
        a0 == ex.rest_args
        encode ==
            /\ IndexOf(redis_method, <<"J", "S", "O", "N", ".">>) = 0
            /\ Len(a0) >= 3
            /\ \/ a0[3] # Null
               \/ redis_method = M_JSON_SET
               \/ redis_method = M_JSON_ARRINSERT
               \/ redis_method = M_JSON_ARRAPPEND
            /\ a0[3].t # "fn"
        a1 == IF encode THEN [a0 EXCEPT ![3] = JSONstringify(a0[3])] ELSE a0
        a2 == IF redis_method = M_JSON_ARRINSERT /\ Len(a1) >= 4
              THEN [a1 EXCEPT ![3] = a1[4], ![4] = a1[3]]
              ELSE a1
    IN  [execer |-> ex.execer, m |-> redis_method, args |-> a2]

\* The test of _redis_call for namespacing the additional arguments.
MultiKey(redis_method, hkey, rest_args) ==
    /\ Len(rest_args) > 0
    /\ hkey.t = "str" /\ FirstCharIs(hkey.v, "{")
    /\ \/ redis_method = M_del
       \/ FirstCharIs(redis_method, "z") /\ IndexOf(redis_method, <<"s", "t", "o", "r", "e">>) # -1

\* _redis_call(redis_method, hkey, ...rest_args)
_redis_call(redis_method, hkey, rest_args) ==
    IF IndexOf(redis_method, <<".">>) # -1
    THEN _rraw(redis_method, <<hkey>> \o rest_args)
    ELSE LET mapped ==
                 IF MultiKey(redis_method, hkey, rest_args)
                 THEN [i \in 1..Len(rest_args) |->
                          IF rest_args[i].t # "str" \/ ~FirstCharIs(rest_args[i].v, "{")
                          THEN rest_args[i]
                          ELSE Str(_rpfx(rest_args[i].v))]
                 ELSE rest_args
             ex == _rexec(mapped)
         IN  [execer |-> ex.execer, m |-> redis_method, args |-> <<hkey>> \o ex.rest_args]

----------------------------------------------------------------------------
(* The connection (ioredis), at its boundary *)

\* An invocation as the connection or a batch context receives it.
Invocation(e) == [m |-> e.m, args |-> e.args]

\* The store's reply to an invocation: opaque, identified by what it answers.
Reply(inv) == [t |-> "reply", v |-> inv]

\* this.redisClient.pipeline() / .multi(): a fresh, empty batch context.
NewPipe(type) == [type |-> type, queue |-> <<>>, execs |-> 0, atExec |-> 0]

\* execer[m](...args): on the live connection the command is sent at once, on
\* a batch context it is queued.
Send(lv, ps, e) ==
    IF e.execer = Client
    THEN [live |-> Append(lv, Invocation(e)), pipes |-> ps]
    ELSE [live |-> lv, pipes |-> [ps EXCEPT ![e.execer.v].queue = Append(@, Invocation(e))]]

\* rpipe.exec(): one [error, result] pair per queued command, in queue order.
ExecResults(queue) == [i \in 1..Len(queue) |-> <<Null, Reply(queue[i])>>]

----------------------------------------------------------------------------
(* Public operations.  Each takes the batch contexts that exist and returns *)
(* [live, pipes, ret, threw, cmds]: the invocations made on the live        *)
(* connection, the batch contexts afterwards, the settled result, whether   *)
(* the layer threw, and the caller's commands array afterwards.             *)

\* rr(redis_method, hkey, ...rest_args), args being the whole argument list.
\* _rpfx throws a TypeError when hkey is not a string.
rr(ps, args) ==
    IF Len(args) < 2 \/ args[2].t # "str"
    THEN [live |-> <<>>, pipes |-> ps, ret |-> Undefined, threw |-> TRUE, cmds |-> <<>>]
    ELSE LET redis_method == args[1].v
             hkey == Str(_rpfx(args[2].v))
             rest_args == SubSeq(args, 3, Len(args))
             hasCb == Len(rest_args) > 0 /\ Last(rest_args).t = "fn"
             e == IF hasCb
                  THEN _redis_call(redis_method, hkey, Append(Front(rest_args), Fn("f")))
                  ELSE _redis_call(redis_method, hkey, rest_args)
             sent == Send(<<>>, ps, e)
             result == IF e.execer = Client THEN Reply(Invocation(e)) ELSE e.execer
         IN  [live |-> sent.live, pipes |-> sent.pipes,
              ret |-> IF hasCb THEN [t |-> "cbret", v |-> <<Last(rest_args).v, result>>] ELSE result,
              threw |-> FALSE, cmds |-> <<>>]

\* r(redis_method, hkey, ...rest_args), args being the whole argument list:
\* an empty function is pushed unless the last argument is a function.
r(ps, args) ==
    IF Len(args) < 2 \/ args[2].t # "str"
    THEN [live |-> <<>>, pipes |-> ps, ret |-> Undefined, threw |-> TRUE, cmds |-> <<>>]
    ELSE LET redis_method == args[1].v
             hkey == Str(_rpfx(args[2].v))
             rest0 == SubSeq(args, 3, Len(args))
             rest_args == IF Len(rest0) = 0 \/ Last(rest0).t # "fn"
                          THEN Append(rest0, Fn("noop")) ELSE rest0
             e == _redis_call(redis_method, hkey, rest_args)
             sent == Send(<<>>, ps, e)
         IN  [live |-> sent.live, pipes |-> sent.pipes,
              ret |-> IF e.execer = Client THEN Reply(Invocation(e)) ELSE e.execer,
              threw |-> FALSE, cmds |-> <<>>]

\* The loop of rpipemulti: namespace the key in place, push the batch context,
\* dispatch.  st is [live, pipes, cmds].
RECURSIVE QueueAll(_, _, _, _)
QueueAll(commands, i, rpipe, st) ==
    IF i > Len(commands) THEN st
    ELSE LET c0 == commands[i]
             c1 == IF Len(c0) > 1 THEN [c0 EXCEPT ![2] = Str(_rpfx(c0[2].v))] ELSE c0
             c2 == Append(c1, rpipe)
             e == _redis_call(c2[1].v, c2[2], SubSeq(c2, 3, Len(c2)))
             sent == Send(st.live, st.pipes, e)
         IN  QueueAll(commands, i + 1, rpipe,
                      [live |-> sent.live, pipes |-> sent.pipes, cmds |-> Append(st.cmds, c2)])

\* rpipemulti(commands, arg2)
rpipemulti(ps, commands, arg2) ==
    LET type == IF arg2 = "t" THEN "multi" ELSE "pipeline"
        id == Len(ps) + 1
        st == QueueAll(commands, 1, Pipe(id),
                       [live |-> <<>>, pipes |-> Append(ps, NewPipe(type)), cmds |-> <<>>])
        queue == st.pipes[id].queue
    IN  [live |-> st.live,
         pipes |-> [st.pipes EXCEPT ![id].execs = @ + 1, ![id].atExec = Len(queue)],
         ret |-> [t |-> "results", v |-> ExecResults(queue)],
         threw |-> FALSE, cmds |-> st.cmds]

\* rpipemulti2array(commands): the same loop on a pipeline; the results are
\* the second elements of the pairs of exec.
rpipemulti2array(ps, commands) ==
    LET out == rpipemulti(ps, commands, "")
    IN  [out EXCEPT !.ret = [t |-> "results",
                             v |-> [i \in 1..Len(out.ret.v) |-> out.ret.v[i][2]]]]

\* rpipemaybe without the single-command shortcut: every list is batched.
rpipemaybeAlwaysBatch(ps, commands) == rpipemulti(ps, commands, "")

\* rpipemaybe(commands)
rpipemaybe(ps, commands) ==
    IF Len(commands) = 1
    THEN [rr(ps, commands[1]) EXCEPT !.cmds = commands]
    ELSE rpipemulti(ps, commands, "")

\* rrename(from, to)
rrename(ps, from, to) ==
    LET e == _redis_call(M_rename, Str(_rpfx(from)), <<Str(_rpfx(to))>>)
        sent == Send(<<>>, ps, e)
    IN  [live |-> sent.live, pipes |-> sent.pipes, ret |-> Reply(Invocation(e)),
         threw |-> FALSE, cmds |-> <<>>]

----------------------------------------------------------------------------
(* The store's keyspace and its SCAN, at the boundary *)

NBuckets == 3

\* The keys a store may hold, in the store's iteration order within a bucket.
UniverseKeys == << <<"a">>, <<"p", "a">>, <<"p", "a", "p">>, <<"{", "p", "a">> >>
Universe == {UniverseKeys[n] : n \in 1..Len(UniverseKeys)}

\* Glob matching of a MATCH pattern, "*" being the only wildcard used.
RECURSIVE GlobMatch(_, _)
GlobMatch(ptn, s) ==
    IF ptn = <<>> THEN s = <<>>
    ELSE IF Head(ptn) = "*"
         THEN GlobMatch(Tail(ptn), s) \/ (s # <<>> /\ GlobMatch(ptn, Tail(s)))
         ELSE s # <<>> /\ Head(s) = Head(ptn) /\ GlobMatch(Tail(ptn), Tail(s))

\* s filtered by a test, order kept.
RECURSIVE SelectKeys(_, _, _)
SelectKeys(ks, held, ptn) ==
    IF ks = <<>> THEN <<>>
    ELSE LET k == Head(ks)
             keep == k \in held /\ (ptn.t # "str" \/ GlobMatch(ptn.v, k))
         IN  (IF keep THEN <<k>> ELSE <<>>) \o SelectKeys(Tail(ks), held, ptn)

\* One SCAN round, SCAN cursor [MATCH ptn] [COUNT count]: the keys of bucket
\* cursor + 1 that match, and the next cursor as a decimal string, "0" after
\* the last bucket.  COUNT is a hint: the layout decides the split.
ScanRound(held, layout, cursor, ptn) ==
    LET inBucket == {k \in held : layout[k] = cursor + 1}
        next == IF cursor + 1 >= NBuckets THEN 0 ELSE cursor + 1
    IN  <<Digits(next), SelectKeys(UniverseKeys, inBucket, ptn)>>

\* The hash of the namespace: its key as callers name it, its fields (one per
\* name of the universe) and the value of each field.
HashKey == <<"h">>
HashValue(field) == <<"v">> \o field

RECURSIVE FieldsWithValues(_)
FieldsWithValues(fields) ==
    IF fields = <<>> THEN <<>>
    ELSE <<Head(fields), HashValue(Head(fields))>> \o FieldsWithValues(Tail(fields))

\* One HSCAN round, HSCAN key cursor [MATCH ptn] [COUNT count]: the matching
\* fields of bucket cursor + 1, each followed by its value; a key that holds
\* no hash has no fields.
HScanRound(hashAt, layout, key, cursor, ptn) ==
    LET inBucket == IF key = hashAt THEN {k \in Universe : layout[k] = cursor + 1} ELSE {}
        next == IF cursor + 1 >= NBuckets THEN 0 ELSE cursor + 1
    IN  <<Digits(next), FieldsWithValues(SelectKeys(UniverseKeys, inBucket, ptn))>>

\* parseInt(s) of a decimal string
DigitVal(c) == CHOOSE d \in 0..9 : DigitChar(d) = c

RECURSIVE ParseInt(_)
ParseInt(s) == IF Len(s) = 1 THEN DigitVal(s[1]) ELSE 10 * ParseInt(Front(s)) + DigitVal(Last(s))

----------------------------------------------------------------------------
(* Scan Iterator: rscan(ptn, cb, hkey, opts) with no hash key *)

\* Activation records: one call runs alone, two may be interleaved.
ScanIds == {1, 2}
SoloScan == {1}

ScanPatterns == {<<"*">>, <<"a", "*">>, <<"p", "a", "*">>}

\* opts as callers pass them; an absent field is FALSE or 0.
Opts(rtn, rtnCursor, one, cursor, cbAll, count) ==
    [return |-> rtn, return_cursor |-> rtnCursor, one |-> one, cursor |-> cursor,
     cb_all |-> cbAll, count |-> count]

ScanCalls ==
    {[cb |-> FALSE, opts |-> o] :
        o \in {Opts(TRUE, FALSE, FALSE, 0, FALSE, 0),
               Opts(TRUE, FALSE, FALSE, 0, FALSE, 1),
               Opts(TRUE, TRUE, FALSE, 0, FALSE, 1000),
               Opts(TRUE, TRUE, TRUE, 0, FALSE, 0),
               Opts(TRUE, TRUE, TRUE, 1, FALSE, 0),
               Opts(FALSE, FALSE, FALSE, 0, FALSE, 0)}}
    \cup
    {[cb |-> TRUE, opts |-> o] :
        o \in {Opts(FALSE, FALSE, FALSE, 0, TRUE, 1000),
               Opts(TRUE, FALSE, FALSE, 0, FALSE, 0)}}

NoOpts == Opts(FALSE, FALSE, FALSE, 0, FALSE, 0)

\* An activation record of rscan.  pc: "idle" (no call), "await" (a round is
\* in flight), "done" (the promise resolved: rscan has no path that rejects).
\* issued: the cursors of the rounds issued; nonEmpty: the rounds that
\* returned items; cbLog: the callback's invocations; replies: the store's
\* replies so far, "ok", "bad" (malformed or empty) or "err" (the command failed).
\* func: 'scan' or 'hscan'; async: the callback returns a promise, and pc is
\* "cb" while rscan awaits it; batch: what is left of result[1].
IdleFrame ==
    [pc |-> "idle", ptn0 |-> Null, ptn |-> Null, cb |-> FALSE, opts |-> NoOpts,
     i |-> 0, params |-> <<>>, keys |-> <<>>, issued |-> <<>>, nonEmpty |-> 0,
     cbLog |-> <<>>, replies |-> <<>>, result |-> [cursor |-> -1, keys |-> <<>>],
     func |-> "scan", async |-> FALSE, batch |-> <<>>]

ScanIdle ==
    /\ store = {}
    /\ bucket = [k \in Universe |-> 1]
    /\ frames = [id \in ScanIds |-> IdleFrame]

\* A call that leaves out MATCH when it resumes from a cursor.
RscanEnterNoMatchOnResume(ptn0, cb, opts) ==
    LET ptn == IF ptn0.t = "str" /\ ptn0.v # <<>> THEN Str(_rpfx(ptn0.v)) ELSE Null
        i == IF opts.cursor # 0 THEN opts.cursor ELSE 0
        params == <<Num(i)>>
                  \o (IF ptn.t = "str" /\ opts.cursor = 0
                      THEN <<Str(<<"M", "A", "T", "C", "H">>), ptn>> ELSE <<>>)
                  \o (IF opts.count # 0 THEN <<Str(<<"C", "O", "U", "N", "T">>), Num(opts.count)>> ELSE <<>>)
    IN  [IdleFrame EXCEPT !.pc = "await", !.ptn0 = ptn0, !.ptn = ptn, !.cb = cb,
                          !.opts = opts, !.i = i, !.params = params, !.issued = <<i>>]

\* Lines 301-318: the parameters of the first round.
RscanEnter(ptn0, cb, opts) ==
    LET ptn == IF ptn0.t = "str" /\ ptn0.v # <<>> THEN Str(_rpfx(ptn0.v)) ELSE Null
        i == IF opts.cursor # 0 THEN opts.cursor ELSE 0
        params == <<Num(i)>>
                  \o (IF ptn.t = "str" THEN <<Str(<<"M", "A", "T", "C", "H">>), ptn>> ELSE <<>>)
                  \o (IF opts.count # 0 THEN <<Str(<<"C", "O", "U", "N", "T">>), Num(opts.count)>> ELSE <<>>)
    IN  [IdleFrame EXCEPT !.pc = "await", !.ptn0 = ptn0, !.ptn = ptn, !.cb = cb,
                          !.opts = opts, !.i = i, !.params = params, !.issued = <<i>>]

\* Lines 301-318 with a hash key: the key is namespaced, the pattern is not.
RscanEnterHash(ptn0, cb, hkey, opts) ==
    LET ptn == IF ptn0.t = "str" /\ ptn0.v # <<>> THEN ptn0 ELSE Null
        i == IF opts.cursor # 0 THEN opts.cursor ELSE 0
        params == <<Str(_rpfx(hkey)), Num(i)>>
                  \o (IF ptn.t = "str" THEN <<Str(<<"M", "A", "T", "C", "H">>), ptn>> ELSE <<>>)
                  \o (IF opts.count # 0 THEN <<Str(<<"C", "O", "U", "N", "T">>), Num(opts.count)>> ELSE <<>>)
    IN  [IdleFrame EXCEPT !.pc = "await", !.ptn0 = ptn0, !.ptn = ptn, !.cb = cb,
                          !.opts = opts, !.i = i, !.params = params, !.issued = <<i>>,
                          !.func = "hscan"]

\* Lines 314-315: the group size, and the position of the cursor in params.
NumParams(f) == IF f.func = "scan" THEN 1 ELSE 2
CursorPos(f) == IF f.func = "scan" THEN 1 ELSE 2

\* A splice that takes the group from the front of the batch.
SpliceGroupFront(batch, n) ==
    LET m == IF n <= Len(batch) THEN n ELSE Len(batch)
    IN  [group |-> SubSeq(batch, 1, m), rest |-> SubSeq(batch, m + 1, Len(batch))]

\* result[1].splice(-num_params): the last group, in order, leaves the batch.
SpliceGroup(batch, n) ==
    LET m == IF n <= Len(batch) THEN n ELSE Len(batch)
    IN  [group |-> SubSeq(batch, Len(batch) - m + 1, Len(batch)),
         rest |-> SubSeq(batch, 1, Len(batch) - m)]

\* The callback's invocations for one batch: the whole batch once with cb_all,
\* else one group at a time taken from the end.
RECURSIVE FromEnd(_, _)
FromEnd(items, n) ==
    IF items = <<>> THEN <<>>
    ELSE LET sp == SpliceGroup(items, n) IN <<sp.group>> \o FromEnd(sp.rest, n)

CbCalls(opts, items, n) == IF opts.cb_all THEN <<items>> ELSE FromEnd(items, n)

\* rscan whose loop ends at the first round that returns no items.
RscanStepStopOnEmpty(f, result) ==
    LET i == ParseInt(result[1])
        items == result[2]
        stop == i = 0 \/ f.opts.one \/ items = <<>>
        keys == IF ~f.cb /\ f.opts.return THEN f.keys \o items ELSE f.keys
    IN  [f EXCEPT !.i = i, !.params[1] = Num(i), !.keys = keys,
                  !.nonEmpty = @ + (IF items # <<>> THEN 1 ELSE 0),
                  !.issued = IF stop THEN @ ELSE Append(@, i),
                  !.pc = IF stop THEN "done" ELSE "await",
                  !.result = IF stop
                             THEN [cursor |-> IF f.opts.return_cursor THEN i ELSE -1, keys |-> keys]
                             ELSE @]

\* Line 351: the loop ends at cursor 0 or with `one`, else the next round is
\* issued.
RscanNext(f) ==
    LET stop == f.i = 0 \/ f.opts.one
    IN  [f EXCEPT !.issued = IF stop THEN @ ELSE Append(@, f.i),
                  !.pc = IF stop THEN "done" ELSE "await",
                  !.result = IF stop
                             THEN [cursor |-> IF f.opts.return_cursor THEN f.i ELSE -1,
                                   keys |-> f.keys]
                             ELSE @]

\* Lines 337-346 with a callback that returns a promise: the callback is
\* invoked with the whole batch (cb_all) or with its last group, and rscan
\* awaits it.
RscanInvoke(f) ==
    LET sp == IF f.opts.cb_all THEN [group |-> f.batch, rest |-> <<>>]
              ELSE SpliceGroup(f.batch, NumParams(f))
    IN  [f EXCEPT !.cbLog = Append(@, sp.group), !.batch = sp.rest, !.pc = "cb"]

\* The awaited callback has settled: the next group, or line 351.
RscanCbSettled(f) == IF f.batch # <<>> THEN RscanInvoke(f) ELSE RscanNext(f)

\* Lines 327-353: one pass of the loop body on a well-formed reply
\* [cursor, items], up to the next await or the return.
RscanStep(f, result) ==
    LET i == ParseInt(result[1])
        items == result[2]
        keys == IF items # <<>> /\ ~f.cb /\ f.opts.return THEN f.keys \o items ELSE f.keys
        g == [f EXCEPT !.i = i, !.params[CursorPos(f)] = Num(i),
                       !.nonEmpty = @ + (IF items # <<>> THEN 1 ELSE 0)]
    IN  IF items # <<>> /\ f.cb /\ f.async
        THEN RscanInvoke([g EXCEPT !.batch = items])
        ELSE RscanNext([g EXCEPT !.keys = keys,
                                 !.cbLog = IF items # <<>> /\ f.cb
                                           THEN @ \o CbCalls(f.opts, items, NumParams(f))
                                           ELSE @])

\* Line 327: a reply that is not a non-empty array ends the loop; the cursor
\* and the keys are those of the earlier rounds.
RscanBreak(f) ==
    [f EXCEPT !.pc = "done",
              !.result = [cursor |-> IF f.opts.return_cursor THEN f.i ELSE -1, keys |-> f.keys]]

\* A reply [cursor, items] as the callback of lines 322-324 receives it.
Payload(reply) == Arr(<<Str(reply[1]), Arr(reply[2])>>)

\* Lines 321-353: what follows the resolution of the round's promise with
\* _result.  A payload without a second element that is a non-empty array
\* has no items to consume.
RscanAfter(f, result) ==
    IF result.t # "arr" \/ Len(result.v) = 0 THEN RscanBreak(f)
    ELSE LET items == IF Len(result.v) > 1 /\ result.v[2].t = "arr" THEN result.v[2].v ELSE <<>>
         IN  RscanStep(f, <<result.v[1].v, items>>)

\* The rounds of one call after which the store answers well-formed only.
MaxRounds == 3

\* What the store may answer instead of [cursor, items]: no array, an empty
\* array, an array with a cursor and no items.
MalformedPayloads == {Null, Str(<<"O", "K">>), Arr(<<>>), Arr(<<Str(<<"1">>)>>)}

\* A caller starts rscan(ptn, cb, null, opts); the first round is issued.
RscanCall(id, ptn0, c) ==
    /\ frames[id].pc = "idle"
    /\ frames' = [frames EXCEPT ![id] = RscanEnter(Str(ptn0), c.cb, c.opts)]
    /\ UNCHANGED <<redisHprefix, nsVars, dispVars, storeVars, docVars, purgeVars, resume>>

\* A parameter list shared by the calls in flight: a call sends the cursor
\* another suspended call wrote last.
RoundParamsShared(id) ==
    LET others == {j \in ScanIds \ {id} : frames[j].pc = "await"}
    IN  IF others = {} THEN frames[id].params
        ELSE frames[CHOOSE j \in others : TRUE].params

\* Lines 302, 316 and 322: params is a local of the call; a round sends the
\* call's own list.
RoundParams(id) == frames[id].params

\* The MATCH pattern of a parameter list whose cursor is at position p.
MatchOf(sent, p) ==
    IF Len(sent) > p /\ sent[p + 1] = Str(<<"M", "A", "T", "C", "H">>) THEN sent[p + 2] ELSE Null

\* The store's reply to this.redisClient[func](...params).
RoundReply(sent, func) ==
    IF func = "scan"
    THEN ScanRound(store, bucket, sent[1].v, MatchOf(sent, 1))
    ELSE HScanRound(_rpfx(HashKey), bucket, sent[1].v, sent[2].v, MatchOf(sent, 2))

\* The store answers the round in flight with the cursor and the MATCH
\* pattern of params; the loop body runs to the next await or return.
RscanRound(id) ==
    /\ frames[id].pc = "await"
    /\ LET f == [frames[id] EXCEPT !.replies = Append(@, "ok")]
           reply == RoundReply(RoundParams(id), f.func)
       IN  frames' = [frames EXCEPT ![id] = RscanAfter(f, Payload(reply))]
    /\ UNCHANGED <<redisHprefix, nsVars, dispVars, storeVars, docVars, purgeVars, resume>>

\* A caller starts rscan(ptn, cb, hkey, opts) with a callback, on the keys
\* (hkey absent) or on the fields of a hash.
RscanCallCb(id, ptn0, c) ==
    /\ frames[id].pc = "idle"
    /\ frames' = [frames EXCEPT ![id] =
                     [(IF c.hash THEN RscanEnterHash(Str(ptn0), TRUE, HashKey, c.opts)
                       ELSE RscanEnter(Str(ptn0), TRUE, c.opts))
                      EXCEPT !.async = c.async]]
    /\ UNCHANGED <<redisHprefix, nsVars, dispVars, storeVars, docVars, purgeVars, resume>>

\* The promise of the callback rscan awaits settles.
RscanCbSettles(id) ==
    /\ frames[id].pc = "cb"
    /\ frames' = [frames EXCEPT ![id] = RscanCbSettled(frames[id])]
    /\ UNCHANGED <<redisHprefix, nsVars, dispVars, storeVars, docVars, purgeVars, resume>>

\* The round in flight fails: the callback of lines 322-324 gets the error
\* and no result, and resolves the promise with the absent result.
RscanRoundFails(id) ==
    /\ frames[id].pc = "await"
    /\ LET f == [frames[id] EXCEPT !.replies = Append(@, "err")]
       IN  frames' = [frames EXCEPT ![id] = RscanAfter(f, Undefined)]
    /\ UNCHANGED <<redisHprefix, nsVars, dispVars, storeVars, docVars, purgeVars, resume>>

\* The store answers the round in flight with a malformed or empty payload.
RscanRoundMalformed(id, payload) ==
    /\ frames[id].pc = "await"
    /\ Len(frames[id].replies) < MaxRounds
    /\ LET f == [frames[id] EXCEPT !.replies = Append(@, "bad")]
       IN  frames' = [frames EXCEPT ![id] = RscanAfter(f, payload)]
    /\ UNCHANGED <<redisHprefix, nsVars, dispVars, storeVars, docVars, purgeVars, resume>>

\* The caller has the result; the activation record is gone.
RscanReturn(id) ==
    /\ frames[id].pc = "done"
    /\ frames' = [frames EXCEPT ![id] = IdleFrame]
    /\ UNCHANGED <<redisHprefix, nsVars, dispVars, storeVars, docVars, purgeVars, resume>>

----------------------------------------------------------------------------
(* A caller that enumerates by resuming: one rscan call per round, with     *)
(* {one: true, return: true, return_cursor: true, cursor: <the last one>}   *)

\* pc: "idle", "calling" (an rscan call is running), "done" (a call returned
\* cursor 0).  passed: the cursor given to each call; keys: the keys of the
\* calls so far, concatenated.
IdleResume ==
    [pc |-> "idle", ptn0 |-> <<>>, count |-> 0, passed |-> <<>>, keys |-> <<>>]

ResumeIdle == resume = IdleResume

\* opts of a resumed call.
ResumeOpts(cursor, count) == Opts(TRUE, TRUE, TRUE, cursor, FALSE, count)

\* The first call: no cursor to resume from.
ResumeStart(ptn0, count) ==
    /\ resume.pc = "idle"
    /\ frames[1].pc = "idle"
    /\ frames' = [frames EXCEPT ![1] = RscanEnter(Str(ptn0), FALSE, ResumeOpts(0, count))]
    /\ resume' = [IdleResume EXCEPT !.pc = "calling", !.ptn0 = ptn0, !.count = count,
                                    !.passed = <<0>>]
    /\ UNCHANGED <<redisHprefix, nsVars, dispVars, storeVars, docVars, purgeVars>>

\* A call returned [cursor, keys] (line 353): the caller keeps the keys and,
\* unless the cursor is 0, calls again with that cursor.
ResumeStep ==
    /\ resume.pc = "calling"
    /\ frames[1].pc = "done"
    /\ LET got == frames[1].result
           keys == resume.keys \o got.keys
       IN  IF got.cursor = 0
           THEN /\ resume' = [resume EXCEPT !.pc = "done", !.keys = keys]
                /\ frames' = [frames EXCEPT ![1] = IdleFrame]
           ELSE /\ resume' = [resume EXCEPT !.keys = keys, !.passed = Append(@, got.cursor)]
                /\ frames' = [frames EXCEPT ![1] =
                                 RscanEnter(Str(resume.ptn0), FALSE,
                                            ResumeOpts(got.cursor, resume.count))]
    /\ UNCHANGED <<redisHprefix, nsVars, dispVars, storeVars, docVars, purgeVars>>

\* The caller has its enumeration.
ResumeEnd ==
    /\ resume.pc = "done"
    /\ resume' = IdleResume
    /\ UNCHANGED <<redisHprefix, nsVars, dispVars, storeVars, frames, docVars, purgeVars>>

----------------------------------------------------------------------------
(* Callers of the dispatcher *)

MaxBatch == 2

\* Prefixes under which the operations are exercised: none, plain ones, and
\* one that begins with the tag delimiter.
CallPrefixes == {<<>>, <<"p">>, <<"p", "a">>, <<"{", "p">>}

\* Command descriptors callers submit: standard and module commands, with and
\* without a key, with tagged and untagged additional keys.
Descriptors ==
    { <<Str(M_get), Str(<<"a">>)>>,
      <<Str(M_del), Str(<<"a">>), Str(<<"{", "a", "}">>)>>,
      <<Str(M_del), Str(<<"{", "a", "}">>), Str(<<"{", "a", "}", "a">>), Str(<<"a">>)>>,
      <<Str(M_zunionstore), Str(<<"{", "a", "}", "p">>), Num(1), Str(<<"{", "a", "}">>)>>,
      <<Str(M_get), Str(<<"a">>), Fn("cb")>>,
      <<Str(M_ping)>>,
      <<Str(M_JSON_GET), Str(<<"p", "a">>), Str(<<"$">>)>>,
      <<Str(M_JSON_SET), Str(<<"a">>), Str(<<"$">>), Num(1)>>,
      <<Str(M_FT_LIST)>> }

RECURSIVE SeqsOfLen(_, _)
SeqsOfLen(S, n) ==
    IF n = 0 THEN {<<>>} ELSE {Append(s, x) : s \in SeqsOfLen(S, n - 1), x \in S}

Batches == UNION {SeqsOfLen(Descriptors, n) : n \in 1..MaxBatch}

\* rr is called with a descriptor's elements.
RrInputs == Descriptors

RenameKeys == {<<"a">>, <<"{", "a", "}", "a">>}

NoCall == [op |-> "idle", input |-> <<>>, arg2 |-> ""]
NoRr == [done |-> FALSE, input |-> <<>>, live |-> <<>>, ret |-> Undefined, threw |-> FALSE]

DispIdle ==
    /\ call = NoCall
    /\ live = <<>>
    /\ pipes = <<>>
    /\ ret = Undefined
    /\ threw = FALSE
    /\ cmdsAfter = <<>>
    /\ lastRr = NoRr

\* The call's effects become the observed state.
Observe(c, out) ==
    /\ call' = c
    /\ live' = out.live
    /\ pipes' = out.pipes
    /\ ret' = out.ret
    /\ threw' = out.threw
    /\ cmdsAfter' = out.cmds

RrCall(args) ==
    /\ call.op = "idle"
    /\ LET out == rr(<<>>, args)
       IN  /\ Observe([op |-> "rr", input |-> args, arg2 |-> ""], out)
           /\ lastRr' = [done |-> TRUE, input |-> args, live |-> out.live,
                         ret |-> out.ret, threw |-> out.threw]
    /\ UNCHANGED <<redisHprefix, nsVars, storeVars, frames, docVars, purgeVars, resume>>

RpipemaybeCall(commands) ==
    /\ call.op = "idle"
    /\ Observe([op |-> "rpipemaybe", input |-> commands, arg2 |-> ""], rpipemaybe(<<>>, commands))
    /\ UNCHANGED <<redisHprefix, nsVars, lastRr, storeVars, frames, docVars, purgeVars, resume>>

RpipemultiCall(commands, arg2) ==
    /\ call.op = "idle"
    /\ Observe([op |-> "rpipemulti", input |-> commands, arg2 |-> arg2], rpipemulti(<<>>, commands, arg2))
    /\ UNCHANGED <<redisHprefix, nsVars, lastRr, storeVars, frames, docVars, purgeVars, resume>>

RrenameCall(from, to) ==
    /\ call.op = "idle"
    /\ Observe([op |-> "rrename", input |-> <<Str(from), Str(to)>>, arg2 |-> ""], rrename(<<>>, from, to))
    /\ UNCHANGED <<redisHprefix, nsVars, lastRr, storeVars, frames, docVars, purgeVars, resume>>

\* Trailing arguments a caller may end a dispatch with: none, a batch context
\* it has created (Pipe(1)), a value without an execute capability, a callback.
Trailings == {"none", "pipe", "num", "fn"}

TrailingArgs(tr) ==
    CASE tr = "pipe" -> <<Pipe(1)>>
      [] tr = "num" -> <<Num(1)>>
      [] tr = "fn" -> <<Fn("cb")>>
      [] OTHER -> <<>>

CallerPipes(tr) == IF tr = "pipe" THEN <<NewPipe("pipeline")>> ELSE <<>>

M_FT_SEARCH == <<"F", "T", ".", "S", "E", "A", "R", "C", "H">>

\* Module commands with a third positional argument: a second path, a null
\* value, a value and an index, a string value, a query option.
ModuleCalls ==
    { <<Str(M_JSON_GET), Str(<<"a">>), Str(<<"$">>), Str(<<"$", ".", "a">>)>>,
      <<Str(M_JSON_GET), Str(<<"a">>), Str(<<"$">>), Null>>,
      <<Str(M_JSON_SET), Str(<<"a">>), Str(<<"$">>), Null>>,
      <<Str(M_JSON_ARRINSERT), Str(<<"a">>), Str(<<"$">>), Num(2), Num(0)>>,
      <<Str(M_JSON_ARRAPPEND), Str(<<"a">>), Str(<<"$">>), Str(<<"b">>)>>,
      <<Str(M_FT_SEARCH), Str(<<"a">>), Str(<<"*">>), Str(<<"a">>)>> }

\* The descriptors with a key, as rr and r take them.
RouteInputs == {d \in Descriptors \cup ModuleCalls : Len(d) >= 2 /\ Last(d).t # "fn"}

\* rr(...args, trailing), the caller having created the batch context it passes.
RrRouted(args, tr) ==
    /\ call.op = "idle"
    /\ Observe([op |-> "rr", input |-> args, arg2 |-> tr],
               rr(CallerPipes(tr), args \o TrailingArgs(tr)))
    /\ UNCHANGED <<redisHprefix, nsVars, lastRr, storeVars, frames, docVars, purgeVars, resume>>

\* r(...args, trailing)
RRouted(args, tr) ==
    /\ call.op = "idle"
    /\ Observe([op |-> "r", input |-> args, arg2 |-> tr],
               r(CallerPipes(tr), args \o TrailingArgs(tr)))
    /\ UNCHANGED <<redisHprefix, nsVars, lastRr, storeVars, frames, docVars, purgeVars, resume>>

Rpipemulti2arrayCall(commands) ==
    /\ call.op = "idle"
    /\ Observe([op |-> "rpipemulti2array", input |-> commands, arg2 |-> ""],
               rpipemulti2array(<<>>, commands))
    /\ UNCHANGED <<redisHprefix, nsVars, lastRr, storeVars, frames, docVars, purgeVars, resume>>

\* Lists of descriptors that all have a key.
KeyedBatches == {b \in Batches : \A i \in 1..Len(b) : Len(b[i]) >= 2}

\* The caller submits the list of its previous batch call a second time, as
\* that call left it, to rpipemulti or to rpipemulti2array.
Resubmit(again) ==
    /\ call.op \in {"rpipemulti", "rpipemulti2array"}
    /\ Observe([op |-> "resubmit", input |-> call.input, arg2 |-> again],
               IF again = "rpipemulti" THEN rpipemulti(pipes, cmdsAfter, "")
               ELSE rpipemulti2array(pipes, cmdsAfter))
    /\ UNCHANGED <<redisHprefix, nsVars, lastRr, storeVars, frames, docVars, purgeVars, resume>>

\* The call has settled; the caller goes on to its next call.
Return ==
    /\ call.op # "idle"
    /\ call' = NoCall
    /\ live' = <<>>
    /\ pipes' = <<>>
    /\ ret' = Undefined
    /\ threw' = FALSE
    /\ cmdsAfter' = <<>>
    /\ UNCHANGED <<redisHprefix, nsVars, lastRr, storeVars, frames, docVars, purgeVars, resume>>

----------------------------------------------------------------------------
(* JSON.parse on JSON texts of null, numbers, strings and arrays *)

IsDigit(c) == c \in {"0", "1", "2", "3", "4", "5", "6", "7", "8", "9"}

\* The position after the run of digits that starts at i.
RECURSIVE DigitsEnd(_, _)
DigitsEnd(s, i) == IF i <= Len(s) /\ IsDigit(s[i]) THEN DigitsEnd(s, i + 1) ELSE i

\* The position of the closing quote of the string that opens at i.
RECURSIVE QuoteEnd(_, _)
QuoteEnd(s, i) == IF s[i] = "\"" THEN i ELSE QuoteEnd(s, i + 1)

\* The value that starts at position i of s, and the position after it.
RECURSIVE ParseValue(_, _)
RECURSIVE ParseElems(_, _, _)
ParseValue(s, i) ==
    CASE s[i] = "[" ->
            IF s[i + 1] = "]" THEN [val |-> Arr(<<>>), next |-> i + 2]
            ELSE ParseElems(s, i + 1, <<>>)
      [] s[i] = "n" -> [val |-> Null, next |-> i + 4]
      [] s[i] = "\"" ->
            LET e == QuoteEnd(s, i + 1)
            IN  [val |-> Str(SubSeq(s, i + 1, e - 1)), next |-> e + 1]
      [] OTHER ->
            LET e == DigitsEnd(s, i)
            IN  [val |-> Num(ParseInt(SubSeq(s, i, e - 1))), next |-> e]

ParseElems(s, i, acc) ==
    LET pv == ParseValue(s, i)
    IN  IF s[pv.next] = ","
        THEN ParseElems(s, pv.next + 1, Append(acc, pv.val))
        ELSE [val |-> Arr(Append(acc, pv.val)), next |-> pv.next + 1]

JSONparse(s) == ParseValue(s, 1).val

\* parseJson(s, dflt), lines 11-15
parseJson(s, dflt) ==
    IF s.t = "str" THEN JSONparse(s.v)
    ELSE IF s.t \in {"num", "bool", "null"} THEN s
    ELSE dflt

----------------------------------------------------------------------------
(* The document store (JSON.GET), at the boundary *)

Missing == [t |-> "missing", v |-> 0]

P_root == <<"$">>
P_all == <<"$", ".", "*">>

\* The matches of a root-anchored path in a document: the root itself for
\* "$", the elements of an array root for "$.*", nothing for any other path.
PathMatches(root, path) ==
    IF path = P_root THEN <<root>>
    ELSE IF path = P_all /\ root.t = "arr" THEN root.v
    ELSE <<>>

DocLookup(k) == IF k \in DOMAIN docs THEN docs[k] ELSE Missing

\* JSON.GET key path: null for a missing key, else the JSON text of the
\* sequence of matches.
JsonGet(k, path) ==
    IF DocLookup(k) = Missing THEN Null
    ELSE JSONstringify(Arr(PathMatches(DocLookup(k), path)))

----------------------------------------------------------------------------
(* Document Path Accessor: rjget(hkey, path, callback, ...rest_args) *)

\* _rjpath(path)
_rjpath(path) ==
    IF path = <<>> \/ path = <<"$">> THEN <<"$">>
    ELSE IF ~IndexOfIsZero(path, <<"$", ".">>) THEN <<"$", ".">> \o path
    ELSE path

T_rerun == <<"r", "e", "r", "u", "n">>
T_keep_array == <<"k", "e", "e", "p", "_", "a", "r", "r", "a", "y">>
T_empty_array_null ==
    <<"e", "m", "p", "t", "y", "_", "a", "r", "r", "a", "y", "_", "n", "u", "l", "l">>

\* rest_args.indexOf(x) !== -1, and rest_args.splice(indexOf(x), 1)
Includes(q, x) == \E j \in 1..Len(q) : q[j] = x

RemoveFirst(q, x) ==
    IF ~Includes(q, x) THEN q
    ELSE LET j == CHOOSE n \in 1..Len(q) : q[n] = x /\ \A m \in 1..(n - 1) : q[m] # x
         IN  SubSeq(q, 1, j - 1) \o SubSeq(q, j + 1, Len(q))

\* Lines 375-387: the option tokens are read out of rest_args.
ScanOptions(rest_args) ==
    [rerun |-> Includes(rest_args, Str(T_rerun)),
     keep_array |-> Includes(rest_args, Str(T_keep_array)),
     empty_array_null |-> Includes(rest_args, Str(T_empty_array_null)),
     rest_args |-> RemoveFirst(RemoveFirst(RemoveFirst(rest_args, Str(T_rerun)),
                                           Str(T_keep_array)), Str(T_empty_array_null))]

\* What the callback and the fallback producer return.
CbResult(x) == [t |-> "cbout", v |-> x]
FallbackResult == [t |-> "fbout", v |-> 0]
FallbackDoc == Arr(<<Num(1)>>)

\* The activation record of rjget.  pc: "idle", "get" (JSON.GET in flight),
\* "fallback" (awaiting the fallback before the re-read), "done".
IdleJget ==
    [pc |-> "idle", hkey0 |-> <<>>, path0 |-> <<>>, args0 |-> <<>>,
     hkey |-> <<>>, path |-> <<>>, callback |-> FALSE, cbNull |-> FALSE,
     rest_args |-> <<>>, reads |-> 0, fallbacks |-> 0, cbLog |-> <<>>, ret |-> Undefined]

JgetIdle ==
    /\ docs = [k \in {} |-> Missing]
    /\ jget = IdleJget

\* Lines 372-374: normalise the path, namespace the key, issue JSON.GET.
JgetEnter(f, hkey, path, callback, rest_args) ==
    [f EXCEPT !.pc = "get", !.hkey = _rpfx(hkey), !.path = _rjpath(path),
              !.callback = callback, !.rest_args = rest_args, !.reads = @ + 1]

\* Lines 389-401 with keep_array ignored: a singleton is always unwrapped.
ShapeIgnoreKeepArray(res0, o, callback) ==
    IF res0 = Null THEN [res |-> Null, called |-> FALSE]
    ELSE LET parsed == IF res0.t = "str" THEN parseJson(res0, res0) ELSE res0
             r1 == IF o.empty_array_null /\ parsed.t = "arr" /\ Len(parsed.v) = 0
                   THEN Null ELSE parsed
         IN  IF r1 = Null THEN [res |-> Null, called |-> FALSE]
             ELSE [res |-> IF r1.t = "arr" /\ Len(r1.v) = 1 THEN r1.v[1] ELSE r1,
                   called |-> callback]

\* Lines 389-401: the result before the callback, and whether the callback
\* is invoked with it.
Shape(res0, o, callback) ==
    IF res0 = Null THEN [res |-> Null, called |-> FALSE]
    ELSE LET parsed == IF res0.t = "str" THEN parseJson(res0, res0) ELSE res0
             r1 == IF o.empty_array_null /\ parsed.t = "arr" /\ Len(parsed.v) = 0
                   THEN Null ELSE parsed
         IN  IF r1 = Null THEN [res |-> Null, called |-> FALSE]
             ELSE [res |-> IF ~o.keep_array /\ r1.t = "arr" /\ Len(r1.v) = 1
                           THEN r1.v[1] ELSE r1,
                   called |-> callback]

\* Lines 375-417 after the JSON.GET reply: shape, call back, then return, or
\* invoke the fallback producer and return its result or await it for a re-read.
JgetAfterReply(f, reply) ==
    LET o == ScanOptions(f.rest_args)
        sh == Shape(reply, o, f.callback)
        res == IF sh.called THEN (IF f.cbNull THEN Null ELSE CbResult(sh.res)) ELSE sh.res
        cbLog == IF sh.called THEN Append(f.cbLog, sh.res) ELSE f.cbLog
        g == [f EXCEPT !.cbLog = cbLog, !.rest_args = o.rest_args]
    IN  IF res # Null \/ Len(o.rest_args) = 0
        THEN [g EXCEPT !.pc = "done", !.ret = res]
        ELSE IF o.rest_args[1].t # "fn"
        THEN [g EXCEPT !.pc = "done", !.ret = Null]
        ELSE IF o.rerun
        THEN [g EXCEPT !.pc = "fallback", !.fallbacks = @ + 1]
        ELSE [g EXCEPT !.pc = "done", !.fallbacks = @ + 1, !.ret = FallbackResult]

JgetCall(hkey, path, c) ==
    /\ jget.pc = "idle"
    /\ jget' = JgetEnter([IdleJget EXCEPT !.hkey0 = hkey, !.path0 = path, !.args0 = c.rest_args,
                                          !.cbNull = c.cbNull],
                         hkey, path, c.callback, c.rest_args)
    /\ UNCHANGED <<redisHprefix, nsVars, dispVars, storeVars, frames, docs, purgeVars, resume>>

\* The store answers the JSON.GET in flight.
JgetReply ==
    /\ jget.pc = "get"
    /\ jget' = JgetAfterReply(jget, JsonGet(jget.hkey, jget.path))
    /\ UNCHANGED <<redisHprefix, nsVars, dispVars, storeVars, frames, docs, purgeVars, resume>>

\* A re-issued call that is given the trailing arguments of the first again.
RerunArgsAgain(f) == f.args0

\* Line 413: the re-issued call is rjget(hkey, path, callback), with no
\* trailing arguments.
RerunArgs(f) == <<>>

\* Lines 411-413: the awaited fallback settles, having written the document
\* or not; rjget(hkey, path, callback) is called again.
JgetRerun(wrote) ==
    /\ jget.pc = "fallback"
    /\ docs' = IF wrote /\ jget.hkey \in DOMAIN docs
               THEN [docs EXCEPT ![jget.hkey] = FallbackDoc] ELSE docs
    /\ jget' = JgetEnter(jget, jget.hkey, jget.path, jget.callback, RerunArgs(jget))
    /\ UNCHANGED <<redisHprefix, nsVars, dispVars, storeVars, frames, purgeVars, resume>>

JgetReturn ==
    /\ jget.pc = "done"
    /\ jget' = IdleJget
    /\ UNCHANGED <<redisHprefix, nsVars, dispVars, storeVars, frames, docs, purgeVars, resume>>

\* Callers of rjget
DocKey == <<"a">>
DocUniverse == {Rpfx(pfx, DocKey) : pfx \in CallPrefixes}

DocRoots ==
    { Arr(<<>>), Arr(<<Num(1)>>), Arr(<<Num(1), Num(2)>>), Arr(<<Null>>),
      Arr(<<Arr(<<>>)>>), Arr(<<Str(<<"a">>), Null, Num(12)>>), Num(1) }

JgetPaths == {<<>>, <<"$">>, <<"*">>, <<"$", ".", "*">>, <<"a">>}

OptionLists ==
    {a \o b \o c : a \in {<<>>, <<Str(T_rerun)>>}, b \in {<<>>, <<Str(T_keep_array)>>},
                   c \in {<<>>, <<Str(T_empty_array_null)>>}}

JgetRestArgs ==
    {o \o fb : o \in OptionLists, fb \in {<<>>, <<Fn("fallback")>>, <<Num(1)>>}}
    \cup {<<Fn("fallback"), Str(T_rerun), Str(T_keep_array)>>}

JgetCalls ==
    {[callback |-> cb, cbNull |-> cbn, rest_args |-> ra] :
        cb \in BOOLEAN, cbn \in BOOLEAN, ra \in JgetRestArgs}

----------------------------------------------------------------------------
(* The store's collections and deletions, at the boundary *)

Bool(b) == [t |-> "bool", v |-> b]

M_hdel == <<"h", "d", "e", "l">>
M_zpopmin == <<"z", "p", "o", "p", "m", "i", "n">>
M_spop == <<"s", "p", "o", "p">>

Min(a, b) == IF a <= b THEN a ELSE b

\* The reply to ZPOPMIN: member, score, member, score, ... lowest score first.
RECURSIVE WithScores(_)
WithScores(items) ==
    IF items = <<>> THEN <<>>
    ELSE <<Str(items[1][1]), Str(Digits(items[1][2]))>> \o WithScores(Tail(items))

\* ZPOPMIN key count / SPOP key count: up to count members leave the
\* collection; a key that holds no collection of the command's type answers
\* with an empty list.
PopReply(c, inv) ==
    LET hit == /\ Len(inv.args) = 2
               /\ inv.args[1] = Str(c.key)
               /\ \/ inv.m = M_zpopmin /\ c.kind = "zset"
                  \/ inv.m = M_spop /\ c.kind = "set"
        n == IF hit THEN Min(inv.args[2].v, Len(c.items)) ELSE 0
        taken == SubSeq(c.items, 1, n)
    IN  [reply |-> IF inv.m = M_zpopmin THEN WithScores(taken)
                   ELSE [j \in 1..n |-> Str(taken[j][1])],
         coll |-> [c EXCEPT !.items = SubSeq(c.items, n + 1, Len(c.items))]]

\* DEL key [key ...] removes the keys; the other commands the purger sends
\* (HDEL on hash fields) leave the set of keys as it is.
Apply(held, inv) ==
    IF inv.m = M_del
    THEN held \ {inv.args[j].v : j \in {n \in 1..Len(inv.args) : inv.args[n].t = "str"}}
    ELSE held

RECURSIVE ApplyAll(_, _)
ApplyAll(held, invs) ==
    IF invs = <<>> THEN held ELSE ApplyAll(Apply(held, Head(invs)), Tail(invs))

\* What a settled public operation had the store execute: the invocations on
\* the live connection, then each batch context's queue at its exec.
RECURSIVE Queued(_)
Queued(ps) == IF ps = <<>> THEN <<>> ELSE Head(ps).queue \o Queued(Tail(ps))

Executed(out) == out.live \o Queued(out.pipes)

----------------------------------------------------------------------------
(* Bulk Purger: rdel(ptns) and rdel_from_set(keys_set, is_sorted, ptn) *)

PopCount == 500
RdelCount == 1000

\* s.split('.')
RECURSIVE Split(_)
Split(s) ==
    LET d == IndexOf(s, <<".">>)
    IN  IF d = -1 THEN <<s>>
        ELSE <<SubSeq(s, 1, d)>> \o Split(SubSeq(s, d + 2, Len(s)))

\* The replacement text of String.prototype.replace for a string pattern: in
\* the replacement "$$" stands for "$" and "$&" for the matched text; any
\* other "$" over the alphabet of the model is itself (the two forms that
\* stand for the text before and after the match use quote characters, which
\* no name of the model contains).
RECURSIVE Expand(_, _)
Expand(repl, matched) ==
    IF repl = <<>> THEN <<>>
    ELSE IF Head(repl) = "$" /\ Len(repl) >= 2 /\ repl[2] \in {"$", "&"}
    THEN (IF repl[2] = "$" THEN <<"$">> ELSE matched)
         \o Expand(SubSeq(repl, 3, Len(repl)), matched)
    ELSE <<Head(repl)>> \o Expand(Tail(repl), matched)

\* ptn.replace('*', _key): the first '*' is replaced by the replacement text
\* of _key.
Replace(ptn, key) ==
    LET d == IndexOf(ptn, <<"*">>)
        before == SubSeq(ptn, 1, d)
        after == SubSeq(ptn, d + 2, Len(ptn))
    IN  IF d = -1 THEN ptn
        ELSE before \o Expand(key, <<"*">>) \o after

\* _keys.filter((x, y) => !(y % 2))
EvenIndices(q) == [j \in 1..((Len(q) + 1) \div 2) |-> q[2 * j - 1]]

\* rdel_from_set that keeps every element of a sorted-set pop.
DrainKeysKeepScores(is_sorted, keys) == keys

\* Line 234: the scores of a sorted-set pop are dropped.
DrainKeys(is_sorted, keys) == IF is_sorted THEN EvenIndices(keys) ELSE keys

\* Lines 235-240: one deletion descriptor per key.
DrainCommands(keys, ptn) ==
    [j \in 1..Len(keys) |->
        <<Str(M_del), IF ptn # <<>> THEN Str(Replace(ptn, keys[j].v)) ELSE keys[j]>>]

\* A purger that deletes every literal name as a key.
LiteralCommandAsKey(ptn) == <<Str(M_del), Str(ptn)>>

\* Lines 258-263: the descriptor of a literal name.
LiteralCommand(ptn) ==
    LET parts == Split(ptn)
    IN  IF Len(parts) = 1 THEN <<Str(M_del), Str(parts[1])>>
        ELSE <<Str(M_hdel)>> \o [j \in 1..Len(parts) |-> Str(parts[j])]

\* Lines 267-271: the callback of the scan, on each of its invocations.
RECURSIVE ScanCommands(_)
ScanCommands(cbCalls) ==
    IF cbCalls = <<>> THEN <<>>
    ELSE [j \in 1..Len(Head(cbCalls)) |-> <<Str(M_del), Str(Head(cbCalls)[j])>>]
         \o ScanCommands(Tail(cbCalls))

\* The activation record of rdel or rdel_from_set.  pc: "idle"; "names" (the
\* loop of rdel over ptns), "scan" (a round of rscan in flight); "pop" and
\* "del" (the two awaits of rdel_from_set); "done".  store0 and coll0 are the
\* store at the call; log is what the store was sent, in order.
IdlePurge ==
    [pc |-> "idle", op |-> "none", ptns |-> <<>>, idx |-> 1, commands |-> <<>>,
     keys_set |-> <<>>, is_sorted |-> FALSE, ptn |-> <<>>, keys |-> <<>>,
     store0 |-> {}, coll0 |-> <<>>, log |-> <<>>, ret |-> Undefined]

NoColl == [kind |-> "none", key |-> <<>>, items |-> <<>>]

PurgeIdle ==
    /\ coll = NoColl
    /\ purge = IdlePurge

\* rdel(ptns): ptns is a list, or one name that line 255 wraps in a list.
RdelCall(ptns) ==
    /\ purge.pc = "idle"
    /\ purge' = [IdlePurge EXCEPT !.pc = "names", !.op = "rdel", !.ptns = ptns,
                                  !.store0 = store]
    /\ UNCHANGED <<redisHprefix, nsVars, dispVars, storeVars, frames, docVars, coll, resume>>

\* Lines 257-274: the next name: skipped when empty, a literal's descriptor
\* is pushed, a wildcard starts rscan(ptn, cb, null, {cb_all, count}).
RdelName ==
    /\ purge.pc = "names"
    /\ purge.idx <= Len(purge.ptns)
    /\ LET ptn == purge.ptns[purge.idx]
       IN  IF ptn = <<>>
           THEN /\ purge' = [purge EXCEPT !.idx = @ + 1]
                /\ UNCHANGED frames
           ELSE IF IndexOf(ptn, <<"*">>) = -1
           THEN /\ purge' = [purge EXCEPT !.idx = @ + 1,
                                          !.commands = Append(@, LiteralCommand(ptn))]
                /\ UNCHANGED frames
           ELSE /\ purge' = [purge EXCEPT !.pc = "scan"]
                /\ frames' = [frames EXCEPT ![1] =
                                 RscanEnter(Str(ptn), TRUE,
                                            Opts(FALSE, FALSE, FALSE, 0, TRUE, RdelCount))]
    /\ UNCHANGED <<redisHprefix, nsVars, dispVars, storeVars, docVars, coll, resume>>

\* The store answers the scan round in flight; rscan's loop body runs, the
\* callback appends its deletions; when rscan returns the loop of rdel resumes.
RdelScanRound ==
    /\ purge.pc = "scan"
    /\ frames[1].pc = "await"
    /\ LET f == frames[1]
           reply == ScanRound(store, bucket, f.params[1].v, f.ptn)
           g == RscanAfter([f EXCEPT !.replies = Append(@, "ok")], Payload(reply))
           calls == SubSeq(g.cbLog, Len(f.cbLog) + 1, Len(g.cbLog))
           round == [kind |-> "scan", invs |-> <<[m |-> <<"s", "c", "a", "n">>, args |-> f.params]>>]
       IN  /\ frames' = [frames EXCEPT ![1] = IF g.pc = "done" THEN IdleFrame ELSE g]
           /\ purge' = [purge EXCEPT !.commands = @ \o ScanCommands(calls),
                                     !.log = Append(@, round),
                                     !.pc = IF g.pc = "done" THEN "names" ELSE "scan",
                                     !.idx = IF g.pc = "done" THEN @ + 1 ELSE @]
    /\ UNCHANGED <<redisHprefix, nsVars, dispVars, storeVars, docVars, coll, resume>>

\* Lines 277-278: the accumulated commands go through rpipemaybe, if any.
RdelFlush ==
    /\ purge.pc = "names"
    /\ purge.idx > Len(purge.ptns)
    /\ IF purge.commands = <<>>
       THEN /\ purge' = [purge EXCEPT !.pc = "done", !.ret = Bool(TRUE)]
            /\ UNCHANGED store
       ELSE LET out == rpipemaybe(<<>>, purge.commands)
            IN  /\ store' = ApplyAll(store, Executed(out))
                /\ purge' = [purge EXCEPT !.pc = "done", !.ret = Bool(TRUE),
                                          !.log = Append(@, [kind |-> "exec", invs |-> Executed(out)])]
    /\ UNCHANGED <<redisHprefix, nsVars, dispVars, bucket, frames, docVars, coll, resume>>

\* rdel_from_set(keys_set, is_sorted, ptn), ptn = <<>> when it is not given.
RdelFromSetCall(keys_set, is_sorted, ptn) ==
    /\ purge.pc = "idle"
    /\ purge' = [IdlePurge EXCEPT !.pc = "pop", !.op = "rdel_from_set",
                                  !.keys_set = keys_set, !.is_sorted = is_sorted,
                                  !.ptn = ptn, !.store0 = store, !.coll0 = coll.items]
    /\ UNCHANGED <<redisHprefix, nsVars, dispVars, storeVars, frames, docVars, coll, resume>>

\* Lines 232-234: one pop through rr; an empty reply ends the loop.
DrainPop ==
    /\ purge.pc = "pop"
    /\ LET command == IF purge.is_sorted THEN M_zpopmin ELSE M_spop
           out == rr(<<>>, <<Str(command), Str(purge.keys_set), Num(PopCount)>>)
           pr == PopReply(coll, out.live[1])
           entry == [kind |-> "pop", invs |-> out.live]
       IN  /\ coll' = pr.coll
           /\ purge' = IF pr.reply = <<>>
                       THEN [purge EXCEPT !.pc = "done", !.log = Append(@, entry)]
                       ELSE [purge EXCEPT !.pc = "del", !.log = Append(@, entry),
                                          !.keys = DrainKeys(purge.is_sorted, pr.reply)]
    /\ UNCHANGED <<redisHprefix, nsVars, dispVars, storeVars, frames, docVars, resume>>

\* Lines 235-240: the chunk's deletions are executed as one batch.
DrainDelete ==
    /\ purge.pc = "del"
    /\ LET out == rpipemulti(<<>>, DrainCommands(purge.keys, purge.ptn), "")
       IN  /\ store' = ApplyAll(store, Executed(out))
           /\ purge' = [purge EXCEPT !.pc = "pop", !.keys = <<>>,
                                     !.log = Append(@, [kind |-> "exec", invs |-> Executed(out)])]
    /\ UNCHANGED <<redisHprefix, nsVars, dispVars, bucket, frames, docVars, coll, resume>>

\* Lines 235-240 when rpipe.exec() rejects (the connection is lost before
\* the batch is sent): nothing is executed, the await throws, and
\* rdel_from_set, which has no try, rejects.
DrainDeleteFails ==
    /\ purge.pc = "del"
    /\ LET out == rpipemulti(<<>>, DrainCommands(purge.keys, purge.ptn), "")
       IN  purge' = [purge EXCEPT !.pc = "failed",
                                  !.log = Append(@, [kind |-> "reject", invs |-> Executed(out)])]
    /\ UNCHANGED <<redisHprefix, nsVars, dispVars, storeVars, frames, docVars, coll, resume>>

\* Line 232 when the pop is rejected: nothing is popped, rdel_from_set rejects.
DrainPopFails ==
    /\ purge.pc = "pop"
    /\ purge' = [purge EXCEPT !.pc = "failed", !.log = Append(@, [kind |-> "reject", invs |-> <<>>])]
    /\ UNCHANGED <<redisHprefix, nsVars, dispVars, storeVars, frames, docVars, coll, resume>>

\* The caller has the rejection of rdel_from_set.
PurgeRejected ==
    /\ purge.pc = "failed"
    /\ purge' = IdlePurge
    /\ UNCHANGED <<redisHprefix, nsVars, dispVars, storeVars, frames, docVars, coll, resume>>

\* The caller has the result of rdel or rdel_from_set.
PurgeReturn ==
    /\ purge.pc = "done"
    /\ purge' = IdlePurge
    /\ UNCHANGED <<redisHprefix, nsVars, dispVars, storeVars, frames, docVars, coll, resume>>

\* Callers of the purger
PurgeNames ==
    { << <<"*">> >>, << <<"a", "*">> >>, << <<"p", "a", "*">> >>, << <<"{", "*">> >>,
      << <<"a">> >>, << <<"a", ".", "f">> >>,
      << <<"a", "*">>, <<"{", "*">> >>, << <<>>, <<"p", "a", "p">> >>,
      << <<"a", ".", "f">>, <<"*">>, <<"a">> >> }

MaxMembers == 3
MemberNames == {<<"a">>, <<"b">>, <<"p", "a">>, <<"{", "a", "}", "b">>, <<"b", "$", "&">>}
SetKey == <<"s">>
RenamePatterns == {<<>>, <<"a", "*">>}

\* The sequences of distinct members, the n-th with score n.
DistinctSeqs(n) ==
    {q \in SeqsOfLen(MemberNames, n) : \A i \in 1..n : \A j \in 1..n : q[i] = q[j] => i = j}

Collections ==
    {[kind |-> k, key |-> _rpfx(SetKey), items |-> [j \in 1..Len(q) |-> <<q[j], j>>]] :
        k \in {"zset", "set"}, q \in UNION {DistinctSeqs(n) : n \in 0..MaxMembers}}

\* The keys named by the members, and keys named by the scores.
DrainStore ==
    {_rpfx(m) : m \in MemberNames} \cup {_rpfx(Digits(n)) : n \in 1..(MaxMembers + 1)}

----------------------------------------------------------------------------
(* The namespacer on its own *)

\* A caller namespaces a logical key.
Namespace(k) ==
    /\ nsIn' = k
    /\ nsOut' = _rpfx(k)
    /\ nsOut2' = <<>>
    /\ nsApplied' = 1
    /\ UNCHANGED <<redisHprefix, dispVars, storeVars, frames, docVars, purgeVars, resume>>

\* The namespaced key is namespaced again (rdel hands store keys back to rr,
\* rpipemulti namespaces a descriptor's key in place).
Renamespace ==
    /\ nsApplied = 1
    /\ nsOut2' = _rpfx(nsOut)
    /\ nsApplied' = 2
    /\ UNCHANGED <<redisHprefix, nsIn, nsOut, dispVars, storeVars, frames, docVars, purgeVars, resume>>

----------------------------------------------------------------------------
(* Specifications: one per component, each from the constructed object *)

\* The constructor: the prefix is whatever string was configured.
NsInit ==
    /\ redisHprefix \in Prefixes
    /\ NsIdle
    /\ DispIdle
    /\ ScanIdle
    /\ JgetIdle
    /\ PurgeIdle
    /\ ResumeIdle

NsNext ==
    \/ \E k \in Keys : Namespace(k)
    \/ Renamespace

SpecNs == NsInit /\ [][NsNext]_vars

DispInit ==
    /\ redisHprefix \in CallPrefixes
    /\ NsIdle
    /\ DispIdle
    /\ ScanIdle
    /\ JgetIdle
    /\ PurgeIdle
    /\ ResumeIdle

DispNext ==
    \/ \E args \in RrInputs : RrCall(args)
    \/ \E commands \in Batches : RpipemaybeCall(commands)
    \/ \E commands \in Batches, arg2 \in {"", "t"} : RpipemultiCall(commands, arg2)
    \/ \E from \in RenameKeys, to \in RenameKeys : RrenameCall(from, to)
    \/ Return

SpecDisp == DispInit /\ [][DispNext]_vars

\* The two dispatch entry points, with every kind of trailing argument.
RouteNext ==
    \/ \E args \in RouteInputs, tr \in Trailings : RrRouted(args, tr)
    \/ \E args \in RouteInputs, tr \in Trailings : RRouted(args, tr)
    \/ Return

SpecRoute == DispInit /\ [][RouteNext]_vars

\* Batch calls, and the same list submitted again.
ResubmitNext ==
    \/ \E commands \in KeyedBatches : RpipemultiCall(commands, "")
    \/ \E commands \in KeyedBatches : Rpipemulti2arrayCall(commands)
    \/ \E again \in {"rpipemulti", "rpipemulti2array"} : Resubmit(again)
    \/ Return

SpecResubmit == DispInit /\ [][ResubmitNext]_vars

\* A store that holds every key of the universe, in any bucket layout.
ScanInit ==
    /\ redisHprefix \in CallPrefixes
    /\ NsIdle
    /\ DispIdle
    /\ store = Universe
    /\ bucket \in [Universe -> 1..NBuckets]
    /\ frames = [id \in ScanIds |-> IdleFrame]
    /\ JgetIdle
    /\ PurgeIdle
    /\ ResumeIdle

ScanNext ==
    \/ \E id \in SoloScan, ptn0 \in ScanPatterns, c \in ScanCalls : RscanCall(id, ptn0, c)
    \/ \E id \in SoloScan : RscanRound(id)
    \/ \E id \in SoloScan : RscanReturn(id)

SpecScan == ScanInit /\ [][ScanNext]_vars

JgetInit ==
    /\ redisHprefix \in CallPrefixes
    /\ NsIdle
    /\ DispIdle
    /\ ScanIdle
    /\ \E root \in DocRoots \cup {Missing} :
          docs = [k \in DocUniverse |-> IF k = _rpfx(DocKey) THEN root ELSE Missing]
    /\ jget = IdleJget
    /\ PurgeIdle
    /\ ResumeIdle

JgetNext ==
    \/ \E path \in JgetPaths, c \in {x \in JgetCalls : x.callback \/ ~x.cbNull} :
          JgetCall(DocKey, path, c)
    \/ JgetReply
    \/ \E wrote \in BOOLEAN : JgetRerun(wrote)
    \/ JgetReturn

SpecJget == JgetInit /\ [][JgetNext]_vars

\* The scan iterator over a store whose rounds may fail or come back malformed.
ScanFaultNext ==
    \/ \E id \in SoloScan, ptn0 \in ScanPatterns, c \in ScanCalls : RscanCall(id, ptn0, c)
    \/ \E id \in SoloScan : RscanRound(id)
    \/ \E id \in SoloScan : RscanRoundFails(id)
    \/ \E id \in SoloScan, payload \in MalformedPayloads : RscanRoundMalformed(id, payload)
    \/ \E id \in SoloScan : RscanReturn(id)

SpecScanFault == ScanInit /\ [][ScanFaultNext]_vars

\* Two rscan calls interleaved at their awaits, over a static keyspace.
ConcurrentPrefixes == {<<>>, <<"p">>}
ConcurrentPatterns == {<<"*">>, <<"p", "a", "*">>}
ConcurrentCalls ==
    {[cb |-> FALSE, opts |-> Opts(TRUE, FALSE, FALSE, 0, FALSE, 0)],
     [cb |-> FALSE, opts |-> Opts(TRUE, TRUE, FALSE, 1, FALSE, 0)],
     [cb |-> TRUE, opts |-> Opts(FALSE, FALSE, FALSE, 0, FALSE, 0)]}

Scan2Init ==
    /\ redisHprefix \in ConcurrentPrefixes
    /\ NsIdle
    /\ DispIdle
    /\ store = Universe
    /\ bucket \in [Universe -> 1..NBuckets]
    /\ frames = [id \in ScanIds |-> IdleFrame]
    /\ JgetIdle
    /\ PurgeIdle
    /\ ResumeIdle

Scan2Next ==
    \/ \E id \in ScanIds, ptn0 \in ConcurrentPatterns, c \in ConcurrentCalls : RscanCall(id, ptn0, c)
    \/ \E id \in ScanIds : RscanRound(id)
    \/ \E id \in ScanIds : RscanReturn(id)

SpecScan2 == Scan2Init /\ [][Scan2Next]_vars

\* rscan with a callback, synchronous or not, on the keys and on a hash.
CbCalls0 ==
    {[hash |-> h, async |-> a, opts |-> o] :
        h \in BOOLEAN, a \in BOOLEAN,
        o \in {Opts(FALSE, FALSE, FALSE, 0, FALSE, 0),
               Opts(FALSE, FALSE, FALSE, 0, TRUE, 0),
               Opts(TRUE, TRUE, FALSE, 0, FALSE, 0)}}

ScanCbNext ==
    \/ \E id \in SoloScan, ptn0 \in ScanPatterns, c \in CbCalls0 : RscanCallCb(id, ptn0, c)
    \/ \E id \in SoloScan : RscanRound(id)
    \/ \E id \in SoloScan : RscanCbSettles(id)
    \/ \E id \in SoloScan : RscanReturn(id)

SpecScanCb == ScanInit /\ [][ScanCbNext]_vars

\* Enumeration by resumed calls, over a static keyspace.
ResumeCounts == {0, 1}

ResumeNext ==
    \/ \E ptn0 \in ScanPatterns, count \in ResumeCounts : ResumeStart(ptn0, count)
    \/ RscanRound(1)
    \/ ResumeStep
    \/ ResumeEnd

SpecResume == ScanInit /\ [][ResumeNext]_vars

\* The purger over a store that holds every key of the universe.
PurgeInit ==
    /\ redisHprefix \in CallPrefixes
    /\ NsIdle
    /\ DispIdle
    /\ store = Universe
    /\ bucket \in [Universe -> 1..NBuckets]
    /\ frames = [id \in ScanIds |-> IdleFrame]
    /\ JgetIdle
    /\ PurgeIdle
    /\ ResumeIdle

PurgeNext ==
    \/ \E ptns \in PurgeNames : RdelCall(ptns)
    \/ RdelName
    \/ RdelScanRound
    \/ RdelFlush
    \/ PurgeReturn

SpecPurge == PurgeInit /\ [][PurgeNext]_vars

\* The drain of a collection of the namespace, set or sorted set.
DrainInit ==
    /\ redisHprefix \in CallPrefixes
    /\ NsIdle
    /\ DispIdle
    /\ store = DrainStore
    /\ bucket = [k \in Universe |-> 1]
    /\ frames = [id \in ScanIds |-> IdleFrame]
    /\ JgetIdle
    /\ coll \in Collections
    /\ purge = IdlePurge
    /\ ResumeIdle

DrainNext ==
    \/ \E ptn \in RenamePatterns : RdelFromSetCall(SetKey, coll.kind = "zset", ptn)
    \/ DrainPop
    \/ DrainDelete
    \/ PurgeReturn

SpecDrain == DrainInit /\ [][DrainNext]_vars

\* The drain loop over a store whose commands may be rejected.
DrainFaultNext ==
    \/ \E ptn \in RenamePatterns : RdelFromSetCall(SetKey, coll.kind = "zset", ptn)
    \/ DrainPop
    \/ DrainPopFails
    \/ DrainDelete
    \/ DrainDeleteFails
    \/ PurgeReturn
    \/ PurgeRejected

SpecDrainFault == DrainInit /\ [][DrainFaultNext]_vars

----------------------------------------------------------------------------
(* Cluster tags *)

\* The position of the first "}" of s (0 when there is none).
FirstClose(s) ==
    IF Contains(s, "}") THEN CHOOSE i \in 1..Len(s) : s[i] = "}" /\ \A j \in 1..(i - 1) : s[j] # "}"
    ELSE 0

\* s begins with a cluster tag {tag} with non-empty contents.
HasTag(s) == FirstCharIs(s, "{") /\ FirstClose(s) >= 3

TagOf(s) == SubSeq(s, 1, FirstClose(s))
AfterTag(s) == SubSeq(s, FirstClose(s) + 1, Len(s))

----------------------------------------------------------------------------
(* Claims on the namespacer *)

\* C1: namespacing is idempotent: for every key and every configured prefix,
\* _rpfx(_rpfx(k)) equals _rpfx(k).
C1_Idempotent == nsApplied = 2 => nsOut2 = nsOut

\* C2: for every key that begins with a cluster tag {tag}, the namespaced key
\* begins with exactly the same {tag}, followed by the namespaced remainder.
C2_TagPreserved ==
    (nsApplied >= 1 /\ HasTag(nsIn)) => nsOut = TagOf(nsIn) \o _rpfx(AfterTag(nsIn))

----------------------------------------------------------------------------
(* Claims on the dispatcher and the batch executor *)

\* Every invocation the layer has handed to the store in this call, sent or queued.
RECURSIVE Flatten(_)
Flatten(ss) == IF ss = <<>> THEN <<>> ELSE Head(ss) \o Flatten(Tail(ss))

Handed == live \o Flatten([i \in 1..Len(pipes) |-> pipes[i].queue])

\* The arguments of an invocation that the store reads as keys: all string
\* arguments of del and rename, else the first argument.
KeyArgs(inv) ==
    IF inv.m \in {M_del, M_rename}
    THEN {inv.args[i].v : i \in {j \in 1..Len(inv.args) : inv.args[j].t = "str"}}
    ELSE IF Len(inv.args) > 0 /\ inv.args[1].t = "str" THEN {inv.args[1].v} ELSE {}

\* k begins with the prefix, after an optional leading "{".
InNamespace(k) ==
    \/ IndexOfIsZero(k, redisHprefix)
    \/ FirstCharIs(k, "{") /\ IndexOfIsZero(Tail(k), redisHprefix)

\* C3: every key an operation of the layer passes to the store lies inside the
\* configured namespace, the additional keys of a multi-key deletion included.
C3_Isolation ==
    \A i \in 1..Len(Handed) : \A k \in KeyArgs(Handed[i]) : InNamespace(k)

\* C6: for a batch of M >= 2 descriptors passed to rpipemulti the result has
\* length M and its i-th pair is the outcome of the i-th submitted command.
C6_BatchOrdering ==
    (call.op = "rpipemulti" /\ Len(call.input) >= 2) =>
        /\ Len(ret.v) = Len(call.input)
        /\ \A i \in 1..Len(call.input) :
              LET c == call.input[i]
                  answered == ret.v[i][2].v
              IN  /\ answered.m = c[1].v
                  /\ Len(c) > 1 => answered.args[1] = Str(_rpfx(c[2].v))

\* The case of C7: rpipemaybe([c]) after the direct call rr(...c).
C7_Case ==
    /\ call.op = "rpipemaybe"
    /\ Len(call.input) = 1
    /\ lastRr.done
    /\ lastRr.input = call.input[1]

\* C7: rpipemaybe([c]) makes the same invocation on the live connection and
\* settles to the same result, or fails the same way, as rr(...c), and creates
\* no batch context.
C7_ShortcutEquivalence ==
    C7_Case =>
        /\ live = lastRr.live
        /\ threw = lastRr.threw
        /\ ret = lastRr.ret
        /\ pipes = <<>>

\* C7 witness: a single-command list was dispatched and reached the live connection.
C7_Witness == C7_Case /\ ~threw /\ Len(live) = 1 /\ live[1].args[1] = Str(_rpfx(call.input[1][2].v))

----------------------------------------------------------------------------
(* Claims on the scan iterator *)

\* The stored keys that match a call's namespaced pattern.
Matching(f) == {k \in store : GlobMatch(f.ptn.v, k)}

SeqRange(q) == {q[j] : j \in 1..Len(q)}

\* The case of C4: a full accumulating run has returned.
C4_Case(f) ==
    /\ f.pc = "done"
    /\ ~f.cb /\ f.opts.return /\ ~f.opts.one /\ f.opts.cursor = 0
    /\ f.ptn.t = "str"

\* C4: over a static keyspace a full run with {return: true} and no `one`
\* returns exactly the matching keys, each exactly once, whatever the count
\* hint and however the store splits the keys into rounds.
C4_ScanComplete ==
    \A id \in ScanIds :
        C4_Case(frames[id]) =>
            /\ SeqRange(frames[id].result.keys) = Matching(frames[id])
            /\ Len(frames[id].result.keys) = Cardinality(Matching(frames[id]))

\* C4 witness: a run with a count hint returned two or more keys found in the
\* first and in the last bucket, after an empty round in between.
C4_Witness ==
    \E id \in ScanIds :
        LET f == frames[id]
        IN  /\ C4_Case(f)
            /\ f.opts.count # 0
            /\ Len(f.issued) = NBuckets
            /\ \E k1, k2 \in SeqRange(f.result.keys) : bucket[k1] = 1 /\ bucket[k2] = NBuckets
            /\ \E b \in 2..(NBuckets - 1) : \A k \in Matching(f) : bucket[k] # b

\* C5: a scan with {one: true} stops after exactly one non-empty round (it
\* keeps issuing rounds while a round returns no items and a non-zero
\* cursor), and returns a cursor usable to resume.
C5_OneStopsAfterNonEmpty ==
    \A id \in ScanIds :
        (frames[id].pc = "done" /\ frames[id].opts.one) =>
            /\ frames[id].nonEmpty = 1 \/ frames[id].i = 0
            /\ frames[id].opts.return_cursor => frames[id].result.cursor = frames[id].i

----------------------------------------------------------------------------
(* Claims on the document accessor *)

IsOptionToken(x) == x \in {Str(T_rerun), Str(T_keep_array), Str(T_empty_array_null)}

\* The case of C8: rjget returned, called with no callback and no fallback.
C8_Case ==
    /\ jget.pc = "done"
    /\ ~jget.callback
    /\ \A j \in 1..Len(jget.args0) : IsOptionToken(jget.args0[j])

\* C8: with no callback and no fallback, a missing key yields null; an absent
\* path an empty sequence, or null with empty_array_null; a one-element
\* sequence is unwrapped without keep_array and returned as is with it; longer
\* sequences are returned unchanged.
C8_GetShaping ==
    C8_Case =>
        LET root == DocLookup(_rpfx(jget.hkey0))
            found == PathMatches(root, _rjpath(jget.path0))
            keep == Includes(jget.args0, Str(T_keep_array))
            emptyNull == Includes(jget.args0, Str(T_empty_array_null))
        IN  jget.ret =
                IF root = Missing THEN Null
                ELSE IF Len(found) = 0 THEN (IF emptyNull THEN Null ELSE Arr(<<>>))
                ELSE IF Len(found) = 1 THEN (IF keep THEN Arr(found) ELSE found[1])
                ELSE Arr(found)

\* C8 witness: with keep_array a one-element sequence came back as a sequence.
C8_Witness ==
    /\ C8_Case
    /\ Includes(jget.args0, Str(T_keep_array))
    /\ jget.ret.t = "arr" /\ Len(jget.ret.v) = 1

----------------------------------------------------------------------------
(* Claims on the bulk purger *)

IsWildcard(ptn) == IndexOf(ptn, <<"*">>) # -1

\* The case of C9: rdel has returned from a call with wildcard patterns only.
C9_Case ==
    /\ purge.op = "rdel"
    /\ purge.pc = "done"
    /\ \A j \in 1..Len(purge.ptns) : IsWildcard(purge.ptns[j])

\* The keys of the store at the call that match a namespaced pattern of the call.
PurgeMatched ==
    {k \in purge.store0 : \E j \in 1..Len(purge.ptns) : GlobMatch(_rpfx(purge.ptns[j]), k)}

\* C9: on a quiescent store, rdel with a wildcard pattern deletes exactly the
\* stored keys that match the namespaced pattern and leaves every other key
\* untouched, whatever the number of scan rounds and of matching keys.
C9_PurgeExact == C9_Case => store = purge.store0 \ PurgeMatched

\* The deletions the store executed for the call, in order.
RECURSIVE LogDeletions(_)
LogDeletions(log) ==
    IF log = <<>> THEN <<>>
    ELSE (IF Head(log).kind = "exec"
          THEN SelectSeq(Head(log).invs, LAMBDA inv : inv.m = M_del)
          ELSE <<>>) \o LogDeletions(Tail(log))

\* The case of C10: rdel_from_set(key, true) has returned from the drain of a
\* sorted set.
C10_Case ==
    /\ purge.op = "rdel_from_set"
    /\ purge.pc = "done"
    /\ purge.is_sorted
    /\ purge.ptn = <<>>

\* C10: the drain of a sorted set of n members issues exactly one deletion per
\* member name, none whose target is a score, and leaves the collection empty.
C10_DrainSortedSet ==
    C10_Case =>
        LET dels == LogDeletions(purge.log)
            members == purge.coll0
        IN  /\ Len(dels) = Len(members)
            /\ \A j \in 1..Len(members) :
                  Cardinality({n \in 1..Len(dels) : dels[n].args = <<Str(_rpfx(members[j][1]))>>})
                    = Cardinality({n \in 1..Len(members) : _rpfx(members[n][1]) = _rpfx(members[j][1])})
            /\ \A n \in 1..Len(dels) : \A j \in 1..Len(members) :
                  /\ dels[n].args[1] # Str(Digits(members[j][2]))
                  /\ dels[n].args[1] # Str(_rpfx(Digits(members[j][2])))
            /\ \A j \in 1..Len(members) : _rpfx(Digits(members[j][2])) \in store
            /\ coll.items = <<>>

\* C10 witness: a sorted set of three members has been drained.
C10_Witness ==
    /\ C10_Case
    /\ Len(purge.coll0) = 3
    /\ Len(LogDeletions(purge.log)) = 3

----------------------------------------------------------------------------
(* Claims on failures of the store *)

\* C11: when a store command issued on behalf of a call fails (here a scan
\* round of rscan), the call ends in failure: it never completes normally.
C11_FailurePropagates ==
    \A id \in ScanIds :
        frames[id].pc = "done" => ~Includes(frames[id].replies, "err")

----------------------------------------------------------------------------
(* Claims on the execution target *)

\* No argument of an invocation is a batch context, as it is or serialised.
NoPipeArgument(inv) ==
    \A j \in 1..Len(inv.args) :
        inv.args[j].t # "pipe" /\ inv.args[j] # JSONstringify(Pipe(1))

\* C12: through rr and r, a command whose trailing argument is a batch
\* context is queued into it, is not executed on the live connection, and the
\* batch context is not a command argument; without such a trailing argument
\* the command is executed on the live connection without error.
C12_TargetRouting ==
    call.op \in {"rr", "r"} =>
        IF call.arg2 = "pipe"
        THEN /\ live = <<>>
             /\ Len(pipes) = 1 /\ Len(pipes[1].queue) = 1
             /\ NoPipeArgument(pipes[1].queue[1])
        ELSE /\ ~threw
             /\ Len(live) = 1
             /\ pipes = <<>>

----------------------------------------------------------------------------
(* Claims on concurrent scans *)

\* The call of an activation record run alone to its return, on the store as
\* it is.
RECURSIVE SoloRun(_)
SoloRun(f) ==
    IF f.pc = "done" THEN f
    ELSE SoloRun(RscanAfter([f EXCEPT !.replies = Append(@, "ok")],
                            Payload(RoundReply(f.params, f.func))))

SoloOf(f) == SoloRun(RscanEnter(f.ptn0, f.cb, f.opts))

IsPrefix(q, w) == Len(q) <= Len(w) /\ SubSeq(w, 1, Len(q)) = q

\* C13: two rscan calls interleaved at their awaits over a static keyspace
\* each issue the cursors, make the callback invocations and return the result
\* they would when run alone.
C13_ScansIndependent ==
    \A id \in ScanIds :
        frames[id].pc # "idle" =>
            LET f == frames[id]
                solo == SoloOf(f)
            IN  /\ IsPrefix(f.issued, solo.issued)
                /\ IsPrefix(f.cbLog, solo.cbLog)
                /\ f.pc = "done" => /\ f.issued = solo.issued
                                    /\ f.cbLog = solo.cbLog
                                    /\ f.result = solo.result

\* C13 witness: one call has returned after several rounds while the other,
\* with another pattern, is suspended after several rounds of its own.
C13_Witness ==
    /\ frames[1].pc = "done" /\ Len(frames[1].issued) >= 2
    /\ frames[2].pc = "await" /\ Len(frames[2].issued) >= 2
    /\ frames[1].ptn0 # frames[2].ptn0
    /\ frames[1].result.keys # <<>>

----------------------------------------------------------------------------
(* Claims on the fallback protocol of the document accessor *)

\* What a read of the documents as they are settles to before any fallback:
\* the reply shaped under the options, then handed to the callback.
OutcomeOf(hkey, path, o) ==
    LET sh == Shape(JsonGet(hkey, path), o, jget.callback)
    IN  IF sh.called THEN (IF jget.cbNull THEN Null ELSE CbResult(sh.res)) ELSE sh.res

FirstOutcome == OutcomeOf(_rpfx(jget.hkey0), _rjpath(jget.path0), ScanOptions(jget.args0))

\* The first trailing argument that is not an option token is a function.
HasFallback ==
    LET rest == ScanOptions(jget.args0).rest_args
    IN  Len(rest) > 0 /\ rest[1].t = "fn"

WantsRerun == Includes(jget.args0, Str(T_rerun))

\* C14: the fallback producer is invoked only when the result is null after
\* shaping and callback, at most once per call; with rerun exactly one further
\* read follows and its shaped result is the answer, so a call makes at most
\* two reads; without rerun the fallback's result is the answer; with no
\* function as the first non-option trailing argument the answer is null.
C14_FallbackProtocol ==
    /\ jget.fallbacks <= 1
    /\ jget.reads <= 2
    /\ jget.pc = "fallback" =>
          /\ jget.reads = 1 /\ jget.fallbacks = 1
          /\ WantsRerun /\ HasFallback /\ FirstOutcome = Null
    /\ (jget.pc = "done" /\ jget.reads = 1) =>
          /\ jget.fallbacks = 1 <=> (FirstOutcome = Null /\ HasFallback)
          /\ jget.fallbacks = 1 => ~WantsRerun /\ jget.ret = FallbackResult
          /\ (FirstOutcome = Null /\ ~HasFallback) => jget.ret = Null
    /\ (jget.pc = "done" /\ jget.reads = 2) =>
          /\ jget.fallbacks = 1 /\ WantsRerun
          /\ jget.ret = OutcomeOf(jget.hkey, jget.path, ScanOptions(<<>>))

\* C14 witness: a call with rerun has invoked its fallback once and returned
\* the non-null result of the one further read.
C14_Witness ==
    /\ jget.pc = "done"
    /\ jget.reads = 2 /\ jget.fallbacks = 1
    /\ jget.ret # Null

----------------------------------------------------------------------------
(* Claims on the batch context *)

\* C15: during rpipemulti every command of the list, one without a key
\* included, is queued into the one batch context of the call, nothing is
\* executed on the live connection, and the batch context's exec is invoked
\* once, after all commands have been queued.
C15_BatchQueuing ==
    call.op = "rpipemulti" =>
        /\ live = <<>>
        /\ Len(pipes) = 1
        /\ Len(pipes[1].queue) = Len(call.input)
        /\ pipes[1].execs = 1
        /\ pipes[1].atExec = Len(call.input)

\* C16: a batch context is fresh per batch call and never reused: when the
\* caller submits the same list a second time, the commands are queued into
\* a new batch context, the earlier one is neither a target nor a command
\* argument, and the wire commands are those of the first submission.
C16_FreshBatchContext ==
    call.op = "resubmit" =>
        /\ live = <<>>
        /\ Len(pipes) = 2
        /\ pipes[1].execs = 1 /\ pipes[2].execs = 1
        /\ pipes[2].queue = pipes[1].queue
        /\ \A i \in 1..Len(pipes[2].queue) :
              \A j \in 1..Len(pipes[2].queue[i].args) : pipes[2].queue[i].args[j].t # "pipe"

----------------------------------------------------------------------------
(* Claims on the rounds of the scan iterator *)

\* The cursor the store returns for a round issued with cursor c.
NextCursor(c) == IF c + 1 >= NBuckets THEN 0 ELSE c + 1

\* C17: the first round is issued with opts.cursor (0 when absent), every
\* later round with the cursor the previous round returned; a further round
\* is issued if and only if the previous round returned a well-formed payload
\* with a non-zero cursor and `one` is not set; a malformed or empty payload
\* ends the enumeration and the call returns the items of the earlier rounds.
C17_RoundControl ==
    \A id \in ScanIds :
        LET f == frames[id]
            n == Len(f.replies)
        IN  f.pc # "idle" =>
              /\ f.issued[1] = f.opts.cursor
              /\ \A k \in 2..Len(f.issued) :
                    f.replies[k - 1] = "ok" /\ f.issued[k] = NextCursor(f.issued[k - 1])
              /\ f.pc = "await" =>
                    /\ Len(f.issued) = n + 1
                    /\ n > 0 => (f.replies[n] = "ok" /\ f.i # 0 /\ ~f.opts.one)
              /\ f.pc = "done" =>
                    /\ Len(f.issued) = n
                    /\ f.replies[n] # "ok" \/ f.i = 0 \/ f.opts.one
                    /\ f.result.keys = f.keys

----------------------------------------------------------------------------
(* Claims on the callback of the scan iterator *)

\* The items the store returns for the k-th round a call issued.
RoundItems(f, k) ==
    RoundReply([f.params EXCEPT ![CursorPos(f)] = Num(f.issued[k])], f.func)[2]

\* The callback invocations a batch calls for: the whole batch once with
\* cb_all, else its groups (one key, or a field and its value), last group first.
GroupCalls(f, items) ==
    LET n == IF f.func = "hscan" THEN 2 ELSE 1
        count == Len(items) \div n
    IN  IF items = <<>> THEN <<>>
        ELSE IF f.opts.cb_all THEN <<items>>
        ELSE [j \in 1..count |-> SubSeq(items, Len(items) - n * j + 1, Len(items) - n * (j - 1))]

\* The invocations called for by the first m rounds.
RECURSIVE CallsUpTo(_, _)
CallsUpTo(f, m) ==
    IF m = 0 THEN <<>> ELSE CallsUpTo(f, m - 1) \o GroupCalls(f, RoundItems(f, m))

----------------------------------------------------------------------------
(* Claims on the order of the purge *)

\* The keys the scans of rdel discover for a wildcard name, in the order of
\* the rounds, on the store of the call.
RECURSIVE DiscoveredFrom(_, _)
DiscoveredFrom(ptn, cursor) ==
    ScanRound(purge.store0, bucket, cursor, Str(_rpfx(ptn)))[2]
    \o (IF cursor + 1 >= NBuckets THEN <<>> ELSE DiscoveredFrom(ptn, cursor + 1))

\* The commands the names up to the m-th call for, in input order.
RECURSIVE CommandsFor(_, _)
CommandsFor(ptns, m) ==
    IF m = 0 THEN <<>>
    ELSE LET name == ptns[m]
             found == DiscoveredFrom(name, 0)
             own == IF name = <<>> THEN <<>>
                    ELSE IF IsWildcard(name)
                    THEN [j \in 1..Len(found) |-> <<Str(M_del), Str(found[j])>>]
                    ELSE IF ~Contains(name, ".") THEN << <<Str(M_del), Str(name)>> >>
                    ELSE << <<Str(M_hdel)>> \o [j \in 1..Len(Split(name)) |-> Str(Split(name)[j])] >>
         IN  CommandsFor(ptns, m - 1) \o own

Writes(log) == SelectSeq(log, LAMBDA e : e.kind = "exec")

\* C19: rdel issues no deletion until every name has been processed; it then
\* makes one dispatch of, in input order, one command per literal name (del,
\* or hdel with the fields) and one del per key the scans discovered; with
\* nothing accumulated it writes nothing; it returns true.
C19_PurgeOrdering ==
    purge.op = "rdel" =>
        /\ purge.pc \in {"names", "scan"} =>
              /\ Writes(purge.log) = <<>>
              /\ store = purge.store0
              /\ purge.commands = CommandsFor(purge.ptns, purge.idx - 1)
                                      \o (IF purge.pc = "scan"
                                          THEN ScanCommands(frames[1].cbLog) ELSE <<>>)
        /\ purge.pc = "done" =>
              LET expected == CommandsFor(purge.ptns, Len(purge.ptns))
                  writes == Writes(purge.log)
              IN  /\ purge.ret = Bool(TRUE)
                  /\ purge.commands = expected
                  /\ expected = <<>> => (writes = <<>> /\ store = purge.store0)
                  /\ expected # <<>> =>
                        /\ Len(writes) = 1
                        /\ purge.log[Len(purge.log)].kind = "exec"
                        /\ Len(writes[1].invs) = Len(expected)
                        /\ \A j \in 1..Len(expected) : writes[1].invs[j].m = expected[j][1].v

\* C19 witness: a call with a hash field, a wildcard and a key name has
\* returned after one dispatch of three or more commands.
C19_Witness ==
    /\ purge.op = "rdel" /\ purge.pc = "done"
    /\ Len(purge.ptns) = 3
    /\ Len(purge.commands) >= 3
    /\ purge.commands[1][1] = Str(M_hdel)
    /\ Len(Writes(purge.log)) = 1

----------------------------------------------------------------------------
(* Claims on the drain loop *)

\* The pattern with its first wildcard replaced by the member; the member
\* itself without a pattern.
Substituted(ptn, member) ==
    LET d == IndexOf(ptn, <<"*">>)
    IN  IF ptn = <<>> THEN member
        ELSE IF d = -1 THEN ptn
        ELSE SubSeq(ptn, 1, d) \o member \o SubSeq(ptn, d + 2, Len(ptn))

\* The members of the collection at the call, as the pops take them.
DrainMembers == [j \in 1..Len(purge.coll0) |-> purge.coll0[j][1]]

CeilDiv(a, b) == (a + b - 1) \div b

\* The members the k-th non-empty pop takes.
Chunk(k) ==
    SubSeq(DrainMembers, (k - 1) * PopCount + 1, Min(k * PopCount, Len(DrainMembers)))

\* C20: rdel_from_set alternates between one pop of at most 500 members and,
\* when the pop is non-empty, one batch with exactly one deletion per popped
\* member (the member substituted into the pattern's wildcard when a pattern
\* is supplied, else the member), the batch completing before the next pop;
\* it stops at the first empty pop, after ceil(n/500) non-empty pops.
C20_DrainProtocol ==
    purge.op = "rdel_from_set" =>
        LET log == purge.log
            n == Len(DrainMembers)
        IN  /\ \A e \in 1..Len(log) :
                  /\ log[e].kind = (IF e % 2 = 1 THEN "pop" ELSE "exec")
                  /\ log[e].kind = "pop" =>
                        /\ Len(log[e].invs) = 1
                        /\ log[e].invs[1].args[2] = Num(PopCount)
                  /\ log[e].kind = "exec" =>
                        LET members == Chunk(e \div 2)
                        IN  /\ Len(log[e].invs) = Len(members)
                            /\ \A j \in 1..Len(members) :
                                  /\ log[e].invs[j].m = M_del
                                  /\ log[e].invs[j].args
                                        = <<Str(_rpfx(Substituted(purge.ptn, members[j])))>>
            /\ purge.pc = "pop" => Len(log) % 2 = 0
            /\ purge.pc = "del" => Len(log) % 2 = 1
            /\ purge.pc = "done" => Len(log) = 2 * CeilDiv(n, PopCount) + 1

----------------------------------------------------------------------------
(* Claims on the options of the document accessor across a re-read *)

\* rjget returned the result of a read, called with keep_array and no callback.
C21_Case ==
    /\ jget.pc = "done"
    /\ ~jget.callback
    /\ Includes(jget.args0, Str(T_keep_array))
    /\ jget.ret # FallbackResult
    /\ DocLookup(jget.hkey) # Missing

\* C21: with keep_array set, rjget never returns an unwrapped singleton:
\* whether the result comes from the first read or from the re-read after a
\* rerun fallback, a one-element sequence is returned as a one-element
\* sequence, and empty_array_null still applies to the re-read.
C21_KeepArrayAcrossRerun ==
    C21_Case =>
        LET found == PathMatches(DocLookup(jget.hkey), jget.path)
        IN  /\ Len(found) = 1 => jget.ret = Arr(found)
            /\ (Len(found) = 0 /\ Includes(jget.args0, Str(T_empty_array_null))
                  /\ jget.reads = 2) => jget.ret = Null

\* C22: the transform callback of rjget is invoked only with a non-null
\* result, a path whose stored value is JSON null included; when it is
\* called, its output is the final result.
C22_CallbackNonNull ==
    /\ \A j \in 1..Len(jget.cbLog) : jget.cbLog[j] # Null
    /\ (jget.pc = "done" /\ jget.cbLog # <<>> /\ ~jget.cbNull) =>
          jget.ret = CbResult(Last(jget.cbLog))

----------------------------------------------------------------------------
(* Claims on the arguments the dispatcher forwards *)

\* The invocation an rr call has made, on the live connection or queued.
SentBy ==
    IF Len(live) > 0 THEN live[1] ELSE pipes[1].queue[1]

\* The additional arguments of the rr call: those after the key, and the
\* trailing one unless it is the batch context the command is queued into.
AdditionalArgs ==
    SubSeq(call.input, 3, Len(call.input))
    \o (IF call.arg2 = "pipe" THEN <<>> ELSE TrailingArgs(call.arg2))

BeginsWithTag(x) == x.t = "str" /\ Len(x.v) > 0 /\ x.v[1] = "{"

IsStoreOrDelete(m) ==
    \/ m = <<"d", "e", "l">>
    \/ /\ Len(m) > 0 /\ m[1] = "z"
       /\ \E j \in 1..(Len(m) - 4) : SubSeq(m, j, j + 4) = <<"s", "t", "o", "r", "e">>

\* An rr call of a standard command that did not throw.
C23_Case ==
    /\ call.op = "rr"
    /\ ~threw
    /\ \A j \in 1..Len(call.input[1].v) : call.input[1].v[j] # "."

\* C23: for a deletion or a sorted-set store command whose primary key begins
\* with a cluster tag, every additional string argument that begins with a
\* tag is namespaced and every other argument is passed through unchanged;
\* for every other command, or when the primary key has no tag, no additional
\* argument is modified.
C23_MultiKeyNamespacing ==
    C23_Case =>
        LET extra == AdditionalArgs
            multi == IsStoreOrDelete(call.input[1].v) /\ BeginsWithTag(call.input[2])
            sent == SentBy.args
        IN  /\ Len(sent) = 1 + Len(extra)
            /\ \A j \in 1..Len(extra) :
                  IF extra[j].t = "fn" THEN sent[j + 1].t = "fn"
                  ELSE IF multi /\ BeginsWithTag(extra[j])
                  THEN sent[j + 1] = Str(_rpfx(extra[j].v))
                  ELSE sent[j + 1] = extra[j]

\* The positional arguments of a module command called through rr: the
\* namespaced key, then the additional arguments.
Positional == <<Str(_rpfx(call.input[2].v))>> \o AdditionalArgs

HasInfix(m, w) == \E j \in 1..(Len(m) - Len(w) + 1) : SubSeq(m, j, j + Len(w) - 1) = w

\* A SET-like or array-mutation command of the document module, and the
\* value-accepting mutation commands among them.
IsJsonCommand(m) == Len(m) >= 5 /\ SubSeq(m, 1, 5) = <<"J", "S", "O", "N", ".">>
SetLikeOrArray(m) ==
    IsJsonCommand(m) /\ (HasInfix(m, <<"S", "E", "T">>) \/ HasInfix(m, <<"A", "R", "R">>))
ValueAccepting(m) ==
    m \in {<<"J", "S", "O", "N", ".", "S", "E", "T">>,
           <<"J", "S", "O", "N", ".", "A", "R", "R", "I", "N", "S", "E", "R", "T">>,
           <<"J", "S", "O", "N", ".", "A", "R", "R", "A", "P", "P", "E", "N", "D">>}

\* An rr call of a module command that did not throw.
C24_Case ==
    /\ call.op = "rr"
    /\ ~threw
    /\ \E j \in 1..Len(call.input[1].v) : call.input[1].v[j] = "."

\* C24: the third positional argument of a module command is JSON-encoded
\* only for SET-like and array-mutation commands (always for the
\* value-accepting mutation commands, for the others only when it is not
\* null); for every other module command all arguments reach the store
\* unchanged; an execution target or callback is never encoded.
C24_ValueEncoding ==
    C24_Case =>
        LET m == call.input[1].v
            pos == Positional
            sent == SentBy.args
            encoded == /\ Len(pos) >= 3
                       /\ SetLikeOrArray(m)
                       /\ pos[3] # Null \/ ValueAccepting(m)
                       /\ pos[3].t \notin {"fn", "pipe"}
            swapped == m = <<"J", "S", "O", "N", ".", "A", "R", "R", "I", "N", "S", "E", "R", "T">>
                       /\ Len(pos) >= 4
            \* the caller's position of the argument sent at position j
            from(j) == IF swapped /\ j = 3 THEN 4 ELSE IF swapped /\ j = 4 THEN 3 ELSE j
        IN  /\ Len(sent) = Len(pos)
            /\ \A j \in 1..Len(sent) :
                  IF pos[from(j)].t = "fn" THEN sent[j].t = "fn"
                  ELSE IF encoded /\ from(j) = 3 THEN sent[j] = JSONstringify(pos[3])
                  ELSE sent[j] = pos[from(j)]

----------------------------------------------------------------------------
(* Claims on collisions within a namespace *)

\* C25: under a fixed non-empty prefix namespacing is injective: no logical
\* key other than the one namespaced maps to the same store key, a key that
\* itself begins with the prefix included.
C25_Injective ==
    (nsApplied >= 1 /\ redisHprefix # <<>>) =>
        \A k \in Keys : k # nsIn => _rpfx(k) # nsOut

----------------------------------------------------------------------------
(* Claims on resuming a scan *)

\* One full scan of the caller's pattern, run alone on the store as it is.
FullScan == SoloRun(RscanEnter(Str(resume.ptn0), FALSE,
                               Opts(TRUE, TRUE, FALSE, 0, FALSE, resume.count)))

\* The stored keys that match the caller's pattern, namespaced.
ResumeMatching == {k \in store : GlobMatch(_rpfx(resume.ptn0), k)}

\* C26: over a static keyspace, calling rscan with {one: true, return: true,
\* return_cursor: true} repeatedly, each call resuming from the cursor the
\* previous one returned until a call returns cursor 0, visits the rounds of
\* one full scan and yields, concatenated, the same keys, each once; cursor 0
\* is never passed back as a resume position.
C26_ResumeEquivalence ==
    /\ \A j \in 2..Len(resume.passed) : resume.passed[j] # 0
    /\ resume.pc = "done" =>
          /\ resume.passed = FullScan.issued
          /\ resume.keys = FullScan.result.keys
          /\ SeqRange(resume.keys) = ResumeMatching
          /\ Len(resume.keys) = Cardinality(ResumeMatching)

\* C26 witness: an enumeration of one call per bucket has ended, with keys from the
\* first and from the last call.
C26_Witness ==
    /\ resume.pc = "done"
    /\ Len(resume.passed) = NBuckets
    /\ \E k1, k2 \in SeqRange(resume.keys) : bucket[k1] = 1 /\ bucket[k2] = NBuckets

----------------------------------------------------------------------------
(* Claims on what the drain loop leaves behind *)

\* The members the call has removed from the collection so far.
Removed ==
    {purge.coll0[j][1] : j \in 1..Len(purge.coll0)}
    \ {coll.items[j][1] : j \in 1..Len(coll.items)}

\* The deletion targets the store has executed during the call.
DeletedTargets ==
    UNION {{purge.log[e].invs[j].args[1] : j \in 1..Len(purge.log[e].invs)} :
              e \in {n \in 1..Len(purge.log) : purge.log[n].kind = "exec"}}

\* C27: wherever rdel_from_set returns or fails, every member it has removed
\* from the collection has had its deletion command executed against the
\* store, a failure of a chunk's batch execution included.
C27_DrainLosesNoMember ==
    (purge.op = "rdel_from_set" /\ purge.pc \in {"done", "failed"}) =>
        \A member \in Removed :
            Str(_rpfx(Substituted(purge.ptn, member))) \in DeletedTargets

====
